---- MODULE Spec2Model ----
(***************************************************************************)
(* Philippine telco news aggregator: the fetch request of the App and of   *)
(* the server's /api/news endpoint, the cross-source merge with its        *)
(* duplicate test, and the BuzzSumo (secondary source) filtering pipeline. *)
(*                                                                         *)
(* Strings are TLC strings; a character is a string of length 1.  Titles,  *)
(* excerpts, domains and URLs are the literal texts the code works on, and *)
(* the keyword tests are the substring tests of String.prototype.includes. *)
(***************************************************************************)
EXTENDS Integers, Sequences, FiniteSets, TLC

VARIABLES
    \* ---- App.tsx component state (useState hooks)
    loading, generatingPresentation, error, newsData, buzzsumoArticles,
    presentation, hasFetched,
    \* ---- the two promises handed to Promise.allSettled by handleFetchNews, and
    \*      the merged data of the generatePresentationFromNews call in flight
    geminiResult, buzzsumoResult, mergedData,
    \* ---- what the BuzzSumo call of the request met: the environment and the
    \*      remote side's response
    buzzsumoCall,
    \* ---- server: one /api/news request (its two promises and its response)
    srvGemini, srvBuzzsumo, srvResponse,
    \* ---- the program that runs ("App", "server") or, for the functions applied
    \*      on their own, the function applied, with its arguments and result
    op, args, result

appVars == <<loading, generatingPresentation, error, newsData, buzzsumoArticles,
             presentation, hasFetched, geminiResult, buzzsumoResult, mergedData,
             buzzsumoCall>>
srvVars == <<srvGemini, srvBuzzsumo, srvResponse>>
fnVars  == <<op, args, result>>
vars    == <<appVars, srvVars, fnVars>>

(***************************************************************************)
(* JavaScript string primitives                                            *)
(***************************************************************************)
Char(s, i) == SubSeq(s, i, i)

Chars(s) == {Char(s, i) : i \in 1..Len(s)}

UpperChars == "ABCDEFGHIJKLMNOPQRSTUVWXYZ"
LowerChars == "abcdefghijklmnopqrstuvwxyz"
DigitChars == "0123456789"

\* \s of the regular expressions (the whitespace that occurs in the inputs)
WhiteSpace == {" ", "\t"}

\* \w of the regular expressions
WordChars == Chars(UpperChars) \cup Chars(LowerChars) \cup Chars(DigitChars) \cup {"_"}

\* the lower-case letter of every upper-case letter
LowerOf ==
    [c \in Chars(UpperChars) |->
        Char(LowerChars, CHOOSE i \in 1..Len(UpperChars) : Char(UpperChars, i) = c)]

LowerChar(c) == IF c \in DOMAIN LowerOf THEN LowerOf[c] ELSE c

RECURSIVE toLowerCase(_)
toLowerCase(s) ==
    IF s = "" THEN "" ELSE LowerChar(Char(s, 1)) \o toLowerCase(SubSeq(s, 2, Len(s)))

\* s.includes(t)
includes(s, t) ==
    \E i \in 1..(Len(s) - Len(t) + 1) : SubSeq(s, i, i + Len(t) - 1) = t

Max(S) == CHOOSE x \in S : \A y \in S : y <= x

\* s.startsWith(t), the test behind an anchored ^ pattern
startsWith(s, t) == Len(s) >= Len(t) /\ SubSeq(s, 1, Len(t)) = t

\* list.some(k => s.includes(k))
someIncluded(s, list) == \E k \in DOMAIN list : includes(s, list[k])

\* s.replace(/^t/, ''): drop the prefix t when s starts with it
stripPrefix(s, t) == IF startsWith(s, t) THEN SubSeq(s, Len(t) + 1, Len(s)) ELSE s

\* s.replace(/\/$/, ''): drop ONE trailing slash
stripTrailingSlash(s) ==
    IF Len(s) > 0 /\ Char(s, Len(s)) = "/" THEN SubSeq(s, 1, Len(s) - 1) ELSE s

\* index of the first character of s that is in set cs, Len(s)+1 when there is none
RECURSIVE firstOf(_, _, _)
firstOf(s, cs, i) ==
    IF i > Len(s) THEN Len(s) + 1
    ELSE IF Char(s, i) \in cs THEN i ELSE firstOf(s, cs, i + 1)

\* s.split('?')[0]
beforeQuery(s) == SubSeq(s, 1, firstOf(s, {"?"}, 1) - 1)

\* s.replace(/[^\w\s]/g, '')
RECURSIVE removeNonWord(_)
removeNonWord(s) ==
    IF s = "" THEN ""
    ELSE (IF Char(s, 1) \in WordChars \cup WhiteSpace THEN Char(s, 1) ELSE "")
         \o removeNonWord(SubSeq(s, 2, Len(s)))

\* s.replace(/\s+/g, ' ')
RECURSIVE collapseSpaces(_)
collapseSpaces(s) ==
    IF s = "" THEN ""
    ELSE IF Char(s, 1) \in WhiteSpace
         THEN IF Len(s) > 1 /\ Char(s, 2) \in WhiteSpace
              THEN collapseSpaces(SubSeq(s, 2, Len(s)))
              ELSE " " \o collapseSpaces(SubSeq(s, 2, Len(s)))
         ELSE Char(s, 1) \o collapseSpaces(SubSeq(s, 2, Len(s)))

\* s.trim()
RECURSIVE trim(_)
trim(s) ==
    IF s = "" THEN ""
    ELSE IF Char(s, 1) \in WhiteSpace THEN trim(SubSeq(s, 2, Len(s)))
    ELSE IF Char(s, Len(s)) \in WhiteSpace THEN trim(SubSeq(s, 1, Len(s) - 1))
    ELSE s

\* s.split(/\s+/): the maximal runs of non-whitespace, with the empty first/last
\* piece JavaScript yields when s starts/ends with whitespace
RECURSIVE splitWords(_, _)
splitWords(s, cur) ==
    IF s = "" THEN <<cur>>
    ELSE IF Char(s, 1) \in WhiteSpace
         THEN IF Len(s) > 1 /\ Char(s, 2) \in WhiteSpace
              THEN splitWords(SubSeq(s, 2, Len(s)), cur)
              ELSE <<cur>> \o splitWords(SubSeq(s, 2, Len(s)), "")
         ELSE splitWords(SubSeq(s, 2, Len(s)), cur \o Char(s, 1))

(***************************************************************************)
(* services/geminiService.ts: normalisation and the duplicate test         *)
(***************************************************************************)
\* new URL(url) for the inputs of this model: absolute http(s) URLs without
\* userinfo, port or dot segments, and strings without a scheme.  The parser
\* accepts the scheme in any case, lower-cases the host and gives "/" for an
\* empty path; a string without scheme, or with an empty host, makes it throw.
urlRest(url) ==
    IF startsWith(toLowerCase(url), "https://") THEN SubSeq(url, 9, Len(url))
    ELSE IF startsWith(toLowerCase(url), "http://") THEN SubSeq(url, 8, Len(url))
    ELSE ""

urlParses(url) ==
    /\ urlRest(url) # ""
    /\ firstOf(urlRest(url), {"/", "?", "#"}, 1) > 1

urlHostname(url) ==
    toLowerCase(SubSeq(urlRest(url), 1, firstOf(urlRest(url), {"/", "?", "#"}, 1) - 1))

urlPathname(url) ==
    LET rest == urlRest(url)
        from == firstOf(rest, {"/", "?", "#"}, 1)
        to   == firstOf(rest, {"?", "#"}, 1)
    IN  IF from >= to THEN "/" ELSE SubSeq(rest, from, to - 1)

\* variant: no URL parsing, the string-level normalisation for every input
normalizeUrl_StringLevelOnly(url) ==
    LET l  == toLowerCase(url)
        s1 == IF startsWith(l, "https://") THEN SubSeq(l, 9, Len(l))
              ELSE IF startsWith(l, "http://") THEN SubSeq(l, 8, Len(l))
              ELSE l
    IN  beforeQuery(stripTrailingSlash(stripPrefix(s1, "www.")))

normalizeUrl(url) ==
    IF urlParses(url)
    THEN stripPrefix(urlHostname(url), "www.") \o stripTrailingSlash(urlPathname(url))
    ELSE LET l  == toLowerCase(url)
             s1 == IF startsWith(l, "https://") THEN SubSeq(l, 9, Len(l))
                   ELSE IF startsWith(l, "http://") THEN SubSeq(l, 8, Len(l))
                   ELSE l
         IN  beforeQuery(stripTrailingSlash(stripPrefix(s1, "www.")))

normalizeTitle(title) == trim(collapseSpaces(removeNonWord(toLowerCase(title))))

\* the length a contained title must exceed
MinContainedLength == 10

\* variant: a contained title of exactly the minimum length counts
areDuplicateArticles_AtLeast(article1, article2) ==
    LET title1 == normalizeTitle(article1.title)
        title2 == normalizeTitle(article2.title)
        longerTitle  == IF Len(title1) > Len(title2) THEN title1 ELSE title2
        shorterTitle == IF Len(title1) > Len(title2) THEN title2 ELSE title1
    IN  \/ normalizeUrl(article1.source.uri) = normalizeUrl(article2.source.uri)
        \/ title1 = title2
        \/ Len(shorterTitle) >= MinContainedLength /\ includes(longerTitle, shorterTitle)

areDuplicateArticles(article1, article2) ==
    LET url1   == normalizeUrl(article1.source.uri)
        url2   == normalizeUrl(article2.source.uri)
        title1 == normalizeTitle(article1.title)
        title2 == normalizeTitle(article2.title)
        longerTitle  == IF Len(title1) > Len(title2) THEN title1 ELSE title2
        shorterTitle == IF Len(title1) > Len(title2) THEN title2 ELSE title1
    IN  IF url1 = url2 THEN TRUE
        ELSE IF title1 = title2 THEN TRUE
        ELSE IF Len(shorterTitle) > MinContainedLength /\ includes(longerTitle, shorterTitle)
             THEN TRUE
        ELSE FALSE

convertBuzzSumoToNewsArticle(article) ==
    [ title     |-> article.title,
      summary   |-> IF article.excerpt # "" THEN article.excerpt
                    ELSE "Trending article from " \o article.domain_name \o " with "
                         \o ToString(article.engagement.total_shares) \o " social shares.",
      takeaways |-> << "High engagement: " \o ToString(article.engagement.total_shares)
                          \o " total shares across social platforms",
                       "Source: " \o article.domain_name >>,
      source    |-> [title |-> article.domain_name, uri |-> article.url] ]

mapSeq(f(_), s) == [i \in DOMAIN s |-> f(s[i])]

RECURSIVE filterSeq(_, _)
filterSeq(keep(_), s) ==
    IF s = <<>> THEN <<>>
    ELSE (IF keep(Head(s)) THEN <<Head(s)>> ELSE <<>>) \o filterSeq(keep, Tail(s))

RECURSIVE flatten(_)
flatten(ss) == IF ss = <<>> THEN <<>> ELSE Head(ss) \o flatten(Tail(ss))

existingArticles(googleNews) ==
    googleNews.internationalNews \o googleNews.generalNews
        \o flatten([i \in DOMAIN googleNews.companyNews |-> googleNews.companyNews[i].articles])

\* variant: duplicates looked for in the general bucket only
mergeNewsWithBuzzSumo_GeneralOnly(googleNews, buzzsumo) ==
    LET existing == googleNews.generalNews
        isUnique(b) == ~ \E i \in DOMAIN existing : areDuplicateArticles(existing[i], b)
    IN  [googleNews EXCEPT !.generalNews =
            googleNews.generalNews
                \o filterSeq(isUnique, mapSeq(convertBuzzSumoToNewsArticle, buzzsumo))]

mergeNewsWithBuzzSumo(googleNews, buzzsumo) ==
    LET buzzsumoNewsArticles == mapSeq(convertBuzzSumoToNewsArticle, buzzsumo)
        existing == existingArticles(googleNews)
        isUnique(b) == ~ \E i \in DOMAIN existing : areDuplicateArticles(existing[i], b)
        uniqueBuzzsumoArticles == filterSeq(isUnique, buzzsumoNewsArticles)
    IN  [googleNews EXCEPT !.generalNews = googleNews.generalNews \o uniqueBuzzsumoArticles]

(***************************************************************************)
(* services/buzzsumoService.ts: the secondary source and its pipeline      *)
(***************************************************************************)
\* What the BuzzSumo endpoint can answer to the one GET of fetchBuzzSumoNews:
\*   "network"   fetch() rejects;
\*   "status"    a non-2xx response (response.ok is false);
\*   "badjson"   response.json() rejects;
\*   "noarray"   data.results is present and is not an array (.map throws);
\*   "json"      a payload whose results are raw items (a missing field is "",
\*               a missing total_shares is 0).
\* env is whether BUZZSUMO_API_KEY is set.
rawToArticle(item) ==
    [ title       |-> IF item.title # "" THEN item.title ELSE "Untitled",
      url         |-> item.url,
      domain_name |-> IF item.domain_name # "" THEN item.domain_name ELSE urlHostname(item.url),
      engagement  |-> [total_shares |-> item.total_shares],
      excerpt     |-> item.description ]

\* item.domain_name || new URL(item.url).hostname throws for an item that has
\* neither a domain name nor a parseable url
rawItemThrows(item) == item.domain_name = "" /\ ~urlParses(item.url)

\* variant: the key is looked at only after the request has come back
fetchBuzzSumoNews_KeyCheckedLast(env, response) ==
    IF response.kind = "network"
    THEN [ok |-> FALSE, message |-> "Failed to fetch BuzzSumo news: fetch failed"]
    ELSE IF response.kind = "status"
    THEN [ok |-> FALSE,
          message |-> "Failed to fetch BuzzSumo news: BuzzSumo API request failed with status "
                      \o ToString(response.status) \o ": "]
    ELSE IF ~env.BUZZSUMO_API_KEY
    THEN [ok |-> FALSE,
          message |-> "BUZZSUMO_API_KEY environment variable not set. Please set it in your environment."]
    ELSE [ok |-> TRUE, value |-> <<>>]

\* how many times a call of fetchBuzzSumoNews reaches fetch(url): the key is
\* tested before the try block that holds the request
fetchBuzzSumoNewsRequests(env) == IF ~env.BUZZSUMO_API_KEY THEN 0 ELSE 1

fetchBuzzSumoNews(env, response) ==
    IF ~env.BUZZSUMO_API_KEY
    THEN [ok |-> FALSE,
          message |-> "BUZZSUMO_API_KEY environment variable not set. Please set it in your environment."]
    ELSE IF response.kind = "network"
    THEN [ok |-> FALSE, message |-> "Failed to fetch BuzzSumo news: fetch failed"]
    ELSE IF response.kind = "status"
    THEN [ok |-> FALSE,
          message |-> "Failed to fetch BuzzSumo news: BuzzSumo API request failed with status "
                      \o ToString(response.status) \o ": "]
    ELSE IF response.kind = "badjson"
    THEN [ok |-> FALSE, message |-> "Failed to fetch BuzzSumo news: Unexpected token"]
    ELSE IF response.kind = "noarray"
    THEN [ok |-> FALSE, message |-> "Failed to fetch BuzzSumo news: (data.results || []).map is not a function"]
    ELSE IF \E i \in DOMAIN response.results : rawItemThrows(response.results[i])
    THEN [ok |-> FALSE, message |-> "Failed to fetch BuzzSumo news: Invalid URL"]
    ELSE [ok |-> TRUE, value |-> mapSeq(rawToArticle, response.results)]

\* variant: the key keeps the letter case of the url
dedupKey_CaseSensitive(article) == stripTrailingSlash(article.url)

\* the dedup key of the intra-source Deduplicator
dedupKey(article) == stripTrailingSlash(toLowerCase(article.url))

RECURSIVE dedupFrom(_, _)
dedupFrom(articles, seen) ==
    IF articles = <<>> THEN <<>>
    ELSE IF dedupKey(Head(articles)) \in seen
         THEN dedupFrom(Tail(articles), seen)
         ELSE <<Head(articles)>> \o dedupFrom(Tail(articles), seen \cup {dedupKey(Head(articles))})

RECURSIVE reverseSeq(_)
reverseSeq(s) == IF s = <<>> THEN <<>> ELSE Append(reverseSeq(Tail(s)), Head(s))

\* variant: the last article with a key is the one kept
deduplicateArticles_LastWins(articles) ==
    reverseSeq(dedupFrom(reverseSeq(articles), {}))

\* variant: the set of seen keys is emptied whenever an article is dropped
RECURSIVE dedupFrom_ForgetsOnDrop(_, _)
dedupFrom_ForgetsOnDrop(articles, seen) ==
    IF articles = <<>> THEN <<>>
    ELSE IF dedupKey(Head(articles)) \in seen
         THEN dedupFrom_ForgetsOnDrop(Tail(articles), {})
         ELSE <<Head(articles)>>
              \o dedupFrom_ForgetsOnDrop(Tail(articles), seen \cup {dedupKey(Head(articles))})

deduplicateArticles_ForgetsOnDrop(articles) == dedupFrom_ForgetsOnDrop(articles, {})

deduplicateArticles(articles) == dedupFrom(articles, {})

telcoCompanyIndicators ==
    << "pldt", "globe telecom", "dito telecommunity", "dito telecoms",
       "converge ict", "smart communications",
       "telecommunications", "telecom", "telecoms",
       "mobile network", "broadband", "internet service provider", "isp",
       "5g network", "fiber network", "cellular",
       "dict", "ntc", "telco", "telcos" >>

smartFalsePositives ==
    << "smart meter", "smart grid", "smart city", "smart home",
       "smart device", "smart tv", "smart watch", "smart phone",
       "smart technology", "smart monitoring", "smart system",
       "smart economics", "smart solution", "smart app",
       "smart card", "be smart", "work smart", "smart choice" >>

ditoFalsePositives ==
    << "dito sa", "dito ang", "dito na", "dito pa",
       "pumunta dito", "magtungo dito", "dumating dito" >>

tagalogNextWords == << "sa", "ang", "na", "pa", "ay" >>

globeFalsePositives ==
    << "vendÃ©e globe", "golden globe", "globe award",
       "around the globe", "across the globe", "globe trot" >>

convergeFalsePositives == << "fiberxers", "fiber xers", "basketball", "pba" >>

\* words.findIndex(w => w.includes(t)), 0 for JavaScript's -1
findIndexIncluding(words, t) ==
    IF \E i \in DOMAIN words : includes(words[i], t)
    THEN CHOOSE i \in DOMAIN words :
            /\ includes(words[i], t)
            /\ \A j \in 1..(i - 1) : ~includes(words[j], t)
    ELSE 0

hasTelcoContext(combined) == someIncluded(combined, telcoCompanyIndicators)

\* variant: the generic phrases compared with the whole title
smartRejects_ExactPhrase(title, combined) ==
    /\ includes(title, "smart") /\ ~includes(title, "smart communications")
    /\ \E k \in DOMAIN smartFalsePositives : title = smartFalsePositives[k]
    /\ ~hasTelcoContext(combined)

\* the "smart" block: TRUE when it returns false from validateTelcoRelevance
smartRejects(title, combined) ==
    /\ includes(title, "smart") /\ ~includes(title, "smart communications")
    /\ someIncluded(title, smartFalsePositives)
    /\ ~hasTelcoContext(combined)

\* variant: the Tagalog phrases tested only after the telco context
ditoRejects_ContextFirst(title, combined) ==
    /\ includes(title, "dito")
    /\ ~includes(title, "dito telecom") /\ ~includes(title, "dito network")
    /\ ~hasTelcoContext(combined)

\* the "dito" block
ditoRejects(title, combined) ==
    /\ includes(title, "dito")
    /\ ~includes(title, "dito telecom") /\ ~includes(title, "dito network")
    /\ IF someIncluded(title, ditoFalsePositives) THEN TRUE
       ELSE LET words     == splitWords(title, "")
                ditoIndex == findIndexIncluding(words, "dito")
            IN  /\ ditoIndex # 0
                /\ IF /\ ditoIndex + 1 \in DOMAIN words
                      /\ words[ditoIndex + 1] # ""
                      /\ \E k \in DOMAIN tagalogNextWords :
                            tagalogNextWords[k] = words[ditoIndex + 1]
                   THEN TRUE
                   ELSE ~hasTelcoContext(combined)

\* the "globe" block
globeRejects(title) ==
    /\ includes(title, "globe") /\ ~includes(title, "globe telecom")
    /\ someIncluded(title, globeFalsePositives)

\* the "converge" block
convergeRejects(title) ==
    /\ includes(title, "converge") /\ ~includes(title, "converge ict")
    /\ someIncluded(title, convergeFalsePositives)

\* variant: the "smart" block is left out
validateTelcoRelevance_NoSmartBlock(article) ==
    LET title    == toLowerCase(article.title)
        excerpt  == toLowerCase(article.excerpt)
        combined == title \o " " \o excerpt
    IN  ~ditoRejects(title, combined) /\ ~globeRejects(title) /\ ~convergeRejects(title)

\* variant: the "dito" block is left out
validateTelcoRelevance_NoDitoBlock(article) ==
    LET title    == toLowerCase(article.title)
        excerpt  == toLowerCase(article.excerpt)
        combined == title \o " " \o excerpt
    IN  ~smartRejects(title, combined) /\ ~globeRejects(title) /\ ~convergeRejects(title)

\* variant: a title that names "smart communications" is taken at once
validateTelcoRelevance_ExceptionWins(article) ==
    LET title    == toLowerCase(article.title)
        excerpt  == toLowerCase(article.excerpt)
        combined == title \o " " \o excerpt
    IN  IF includes(title, "smart communications") THEN TRUE
        ELSE /\ ~smartRejects(title, combined) /\ ~ditoRejects(title, combined)
             /\ ~globeRejects(title) /\ ~convergeRejects(title)

validateTelcoRelevance(article) ==
    LET title    == toLowerCase(article.title)
        excerpt  == toLowerCase(article.excerpt)
        combined == title \o " " \o excerpt
    IN  IF smartRejects(title, combined) THEN FALSE
        ELSE IF ditoRejects(title, combined) THEN FALSE
        ELSE IF globeRejects(title) THEN FALSE
        ELSE IF convergeRejects(title) THEN FALSE
        ELSE TRUE

sportsKeywords ==
    << "pba", "pvl", "uaap", "ncaa", "nba", "fiba",
       "basketball", "volleyball", "gilas",
       "traded", "debut", "match", "game", "score",
       "fiberxers", "high speed hitters", "tropang",
       "golden", "tournament", "championship", "playoffs",
       "injured", "injures", "triple-double", "season",
       "coach", "player", "team", "win", "loss", "defeat" >>

lowImportanceKeywords ==
    << "promo", "sale", "discount", "voucher", "giveaway",
       "celebrity", "endorsement", "ambassador",
       "raffle", "contest", "prize",
       "csr", "charity", "donation", "scholarship",
       "award ceremony", "recognition event",
       "new plan", "price cut", "special offer",
       "bundle", "freebie", "limited time" >>

highImportanceKeywords ==
    << "billion", "million", "investment", "capex",
       "infrastructure", "subsea cable", "fiber", "data center",
       "network expansion", "rollout", "deployment",
       "dict", "ntc", "regulatory", "policy", "law",
       "spectrum", "license", "permit", "circular",
       "5g", "fiber", "broadband", "satellite", "starlink",
       "cybersecurity", "breach", "hack", "outage",
       "merger", "acquisition", "partnership", "alliance",
       "earnings", "revenue", "profit", "quarterly",
       "stock", "ipo", "shares",
       "outage", "disruption", "complaint", "npc",
       "data breach", "privacy", "security" >>

majorNewsSources ==
    << "philstar.com", "mb.com.ph", "bworldonline.com",
       "rappler.com", "inquirer.net", "gmanetwork.com",
       "abs-cbn.com", "manilatimes.net", "manilabulletin.com",
       "newsbytes.ph", "bilyonaryo.com" >>

\* variant: the sports keywords are not looked at
isImportantArticle_NoSportsCheck(article) ==
    LET title  == toLowerCase(article.title)
        domain == toLowerCase(article.domain_name)
    IN  /\ validateTelcoRelevance(article)
        /\ ~(includes(domain, "youtube.com") \/ includes(domain, "youtu.be"))
        /\ ~someIncluded(title, lowImportanceKeywords)
        /\ \/ someIncluded(title, highImportanceKeywords)
           \/ /\ someIncluded(domain, majorNewsSources)
              /\ ~includes(title, "ad") /\ ~includes(title, "sponsored")

\* variant: only youtube.com counts as a video platform
isImportantArticle_YoutubeComOnly(article) ==
    LET title  == toLowerCase(article.title)
        domain == toLowerCase(article.domain_name)
    IN  /\ validateTelcoRelevance(article)
        /\ ~includes(domain, "youtube.com")
        /\ ~someIncluded(title, sportsKeywords)
        /\ ~someIncluded(title, lowImportanceKeywords)
        /\ \/ someIncluded(title, highImportanceKeywords)
           \/ /\ someIncluded(domain, majorNewsSources)
              /\ ~includes(title, "ad") /\ ~includes(title, "sponsored")

\* variant: an allow-listed outlet accepted whatever the title
isImportantArticle_NoAdCheck(article) ==
    LET title  == toLowerCase(article.title)
        domain == toLowerCase(article.domain_name)
    IN  /\ validateTelcoRelevance(article)
        /\ ~(includes(domain, "youtube.com") \/ includes(domain, "youtu.be"))
        /\ ~someIncluded(title, sportsKeywords)
        /\ ~someIncluded(title, lowImportanceKeywords)
        /\ (someIncluded(title, highImportanceKeywords) \/ someIncluded(domain, majorNewsSources))

\* the callback of filterImportantArticles' articles.filter
isImportantArticle(article) ==
    LET title  == toLowerCase(article.title)
        domain == toLowerCase(article.domain_name)
    IN  IF ~validateTelcoRelevance(article) THEN FALSE
        ELSE IF includes(domain, "youtube.com") \/ includes(domain, "youtu.be") THEN FALSE
        ELSE IF someIncluded(title, sportsKeywords) THEN FALSE
        ELSE IF someIncluded(title, lowImportanceKeywords) THEN FALSE
        ELSE LET hasImportantKeyword == someIncluded(title, highImportanceKeywords)
                 isMajorNewsSource   == someIncluded(domain, majorNewsSources)
             IN  hasImportantKeyword
                 \/ (isMajorNewsSource /\ ~includes(title, "ad") /\ ~includes(title, "sponsored"))

filterImportantArticles(articles) == filterSeq(isImportantArticle, articles)

\* Array.prototype.sort with (a, b) => b.total_shares - a.total_shares: a stable
\* sort, so an article goes behind every article with at least its shares
RECURSIVE insertByShares(_, _)
insertByShares(sorted, a) ==
    IF sorted = <<>> THEN <<a>>
    ELSE IF Head(sorted).engagement.total_shares - a.engagement.total_shares < 0
         THEN <<a>> \o sorted
         ELSE <<Head(sorted)>> \o insertByShares(Tail(sorted), a)

RECURSIVE sortByShares(_)
sortByShares(articles) ==
    IF articles = <<>> THEN <<>>
    ELSE insertByShares(sortByShares(SubSeq(articles, 1, Len(articles) - 1)),
                        articles[Len(articles)])

\* the display limit of the trending list
DisplayLimit == 15

\* articles.slice(0, n)
slice0(articles, n) == SubSeq(articles, 1, IF Len(articles) < n THEN Len(articles) ELSE n)

\* variant: truncated before it is sorted
pipeline_TruncateFirst(articles) ==
    sortByShares(slice0(filterImportantArticles(deduplicateArticles(articles)), DisplayLimit))

\* the try block of fetchPhilippineTelcoNews, on the fetched articles
pipeline(articles) ==
    LET uniqueArticles    == deduplicateArticles(articles)
        importantArticles == filterImportantArticles(uniqueArticles)
    IN  slice0(sortByShares(importantArticles), DisplayLimit)

\* variant: the catch block throws the error on
fetchPhilippineTelcoNews_Rethrows(env, response) ==
    LET fetched == fetchBuzzSumoNews(env, response)
    IN  IF fetched.ok
        THEN [status |-> "fulfilled", value |-> pipeline(fetched.value)]
        ELSE [status |-> "rejected", reason |-> [message |-> fetched.message]]

\* how the promise of fetchPhilippineTelcoNews settles: the try block's value, or
\* the catch block's empty list when fetchBuzzSumoNews threw
fetchPhilippineTelcoNews(env, response) ==
    LET fetched == fetchBuzzSumoNews(env, response)
    IN  IF fetched.ok
        THEN [status |-> "fulfilled", value |-> pipeline(fetched.value)]
        ELSE [status |-> "fulfilled", value |-> <<>>]

(***************************************************************************)
(* The primary source: fetchTelcoNews (client) and fetchGeminiNews (server)*)
(***************************************************************************)
\* What the Gemini call can give:
\*   "network"   ai.models.generateContent rejects with an Error;
\*   "empty"     a response without text, with its finishReason;
\*   "nojson"    a text without a {...} part;
\*   "badjson"   a text whose {...} part JSON.parse rejects with a SyntaxError
\*               (parserError is its message);
\*   "json"      parsed data: the three top-level values, notArrays naming
\*               those that are no arrays, each company section with whether
\*               its companyName is a string and its articles are an array,
\*               and the grounding chunks.
\* env is whether the API key is set.
rejected(message) == [status |-> "rejected", reason |-> [message |-> message]]

emptyResponseMessage(finishReason, otherwise) ==
    IF finishReason \in {"SAFETY", "RECITATION"}
    THEN "API response blocked due to: " \o finishReason \o ". Please try a different date range."
    ELSE otherwise

shapeOk(parsed) == parsed.notArrays = {}

sectionsOk(parsed) ==
    \A k \in DOMAIN parsed.companyNews :
        parsed.companyNews[k].nameIsString /\ parsed.companyNews[k].articlesIsArray

\* the NewsData held by a parsed payload
dataOf(parsed) ==
    [ internationalNews |-> parsed.internationalNews,
      generalNews       |-> parsed.generalNews,
      companyNews       |-> [k \in DOMAIN parsed.companyNews |->
                                [companyName |-> parsed.companyNews[k].companyName,
                                 articles    |-> parsed.companyNews[k].articles]] ]

\* groundingChunks.find(...): the chunk an article's broken grounding link is
\* replaced from: the first with the trimmed title, else the first whose title
\* holds or is held by the article's title; 0 when there is none
matchingChunk(article, chunks) ==
    LET exact   == {i \in DOMAIN chunks :
                      chunks[i].title # "" /\ trim(article.title) = trim(chunks[i].title)}
        lenient == {i \in DOMAIN chunks :
                      /\ chunks[i].title # ""
                      /\ \/ includes(article.title, chunks[i].title)
                         \/ includes(chunks[i].title, article.title)}
    IN  IF exact # {} THEN CHOOSE i \in exact : \A j \in exact : i <= j
        ELSE IF lenient # {} THEN CHOOSE i \in lenient : \A j \in lenient : i <= j
        ELSE 0

fixGroundingLink(article, chunks) ==
    IF chunks # <<>> /\ includes(article.source.uri, "vertexaisearch.cloud.google.com")
                     /\ matchingChunk(article, chunks) # 0
    THEN [article EXCEPT !.source = [title |-> chunks[matchingChunk(article, chunks)].title,
                                     uri   |-> chunks[matchingChunk(article, chunks)].uri]]
    ELSE article

fixGroundingLinks(data, chunks) ==
    LET fix(a) == fixGroundingLink(a, chunks)
    IN  [ internationalNews |-> mapSeq(fix, data.internationalNews),
          generalNews       |-> mapSeq(fix, data.generalNews),
          companyNews       |-> [k \in DOMAIN data.companyNews |->
                                    [data.companyNews[k] EXCEPT !.articles = mapSeq(fix, @)]] ]

CommunicationError == "An error occurred while communicating with the Gemini API: "

\* how many times fetchTelcoNews and fetchGeminiNews reach generateContent:
\* the key is tested before the client object is made
fetchTelcoNewsRequests(env)  == IF ~env.API_KEY THEN 0 ELSE 1
fetchGeminiNewsRequests(env) == IF ~env.GEMINI_API_KEY THEN 0 ELSE 1

\* how the promise of fetchTelcoNews settles
fetchTelcoNews(env, response) ==
    IF ~env.API_KEY
    THEN rejected("API_KEY environment variable not set. Please set it in your environment.")
    ELSE IF response.kind = "network"
    THEN rejected(CommunicationError \o response.message)
    ELSE IF response.kind = "empty"
    THEN rejected(CommunicationError \o emptyResponseMessage(response.finishReason,
            "Received an empty response from the API. This might be due to rate limiting or API issues. Please try again in a moment."))
    ELSE IF response.kind = "nojson"
    THEN rejected(CommunicationError
                  \o "Could not find a valid JSON object in the AI's response. Response text: \""
                  \o response.text \o "\"")
    ELSE IF response.kind = "badjson"
    THEN rejected("Failed to parse the response from the AI. The format was invalid. Parser error: "
                  \o response.parserError \o ". Received text: \"" \o response.text \o "\"")
    ELSE IF ~shapeOk(response.parsed)
    THEN rejected(CommunicationError \o "API response is not in the expected NewsData format.")
    ELSE IF ~sectionsOk(response.parsed)
    THEN rejected(CommunicationError \o "A company news section is malformed.")
    ELSE [status |-> "fulfilled",
          value  |-> [data |-> fixGroundingLinks(dataOf(response.parsed), response.chunks)]]

\* how the promise of the server's fetchGeminiNews settles
fetchGeminiNews(env, response) ==
    IF ~env.GEMINI_API_KEY
    THEN rejected("GEMINI_API_KEY environment variable not set")
    ELSE IF response.kind = "network"
    THEN rejected(response.message)
    ELSE IF response.kind = "empty"
    THEN rejected(emptyResponseMessage(response.finishReason,
                                       "Received an empty response from the API"))
    ELSE IF response.kind = "nojson"
    THEN rejected("Could not find a valid JSON object in the AI's response")
    ELSE IF response.kind = "badjson"
    THEN rejected(response.parserError)
    ELSE IF ~shapeOk(response.parsed)
    THEN rejected("API response is not in the expected NewsData format")
    ELSE [status |-> "fulfilled",
          value  |-> [parsedData |-> response.parsed, groundingChunks |-> response.chunks]]

(***************************************************************************)
(* Values of the idle parts of the state                                   *)
(***************************************************************************)
\* a value that may be null is a sequence of at most one element
null == <<>>
Some(x) == <<x>>

NoPromise  == [status |-> "none"]
Pending    == [status |-> "pending"]
Settled(p) == p.status \in {"fulfilled", "rejected"}

AppIdle ==
    /\ loading = FALSE /\ generatingPresentation = FALSE /\ error = null
    /\ newsData = null /\ buzzsumoArticles = <<>> /\ presentation = null
    /\ hasFetched = FALSE
    /\ geminiResult = NoPromise /\ buzzsumoResult = NoPromise /\ mergedData = null
    /\ buzzsumoCall = null

SrvIdle == srvGemini = NoPromise /\ srvBuzzsumo = NoPromise /\ srvResponse = null

FnIdle == op = "idle" /\ args = <<>> /\ result = null

(***************************************************************************)
(* The secondary pipeline applied to bounded inputs                        *)
(***************************************************************************)
\* how many raw items a payload holds beyond its generated base
MaxExtraItems == 2

\* the sizes of the generated base payloads: empty, and the display limit, so
\* that every further survivor overflows it
BaseSizes == {0, DisplayLimit}

rawItem(title, url, domain, shares, description) ==
    [title |-> title, url |-> url, domain_name |-> domain,
     total_shares |-> shares, description |-> description]

\* a generated payload of n distinct, relevant, important items
BaseItems(n) ==
    [i \in 1..n |->
        rawItem("PLDT 5G rollout phase " \o ToString(i),
                "https://news.example.ph/telco/" \o ToString(i),
                "news.example.ph", ((i * 37) % 11) * 10, "")]

ExtraItems ==
    { \* same dedup key as base item 1 (letter case and trailing slash differ)
      rawItem("PLDT 5G rollout repeated", "https://News.Example.ph/telco/1/",
              "news.example.ph", 999, ""),
      \* relevant and important, more shares than every base item
      rawItem("NTC issues new spectrum policy", "https://www.philstar.com/business/ntc",
              "philstar.com", 700, ""),
      \* relevant and important, no shares at all
      rawItem("Globe Telecom fiber deployment", "https://mb.com.ph/globe-fiber",
              "", 0, ""),
      \* relevant and important, ties with base items
      rawItem("Converge ICT subsea cable lands", "https://bworldonline.com/converge",
              "bworldonline.com", 40, ""),
      \* not relevant (smart meter without telco context), many shares
      rawItem("New Smart Meter Rollout Announced", "https://power.example/meter",
              "power.example", 500, ""),
      \* video platform
      rawItem("PLDT 5G rollout video", "https://www.youtube.com/watch?v=1",
              "youtube.com", 800, "PLDT broadband"),
      \* relevant and important, "hitters" in a title that is no sports title
      rawItem("Heavy hitters back Converge ICT fiber rollout",
              "https://bworldonline.com/heavy-hitters", "bworldonline.com", 60, ""),
      \* a generic smart phrase in a title with telco context
      rawItem("PLDT smart meter rollout for 5G sites",
              "https://www.philstar.com/business/smart-meter", "philstar.com", 70, ""),
      \* the company named by "dito" alone, telco context in the excerpt
      rawItem("DITO subscribers hit 10 million",
              "https://www.philstar.com/business/dito", "philstar.com", 80,
              "PLDT and Globe Telecom expand broadband"),
      \* video platform, known from the url alone
      rawItem("PLDT fiber rollout explained", "https://youtu.be/abc123", "", 900, ""),
      \* an item with neither domain name nor a parseable url
      rawItem("", "", "", 0, "") }

TestTitles ==
    { "New Smart Meter Rollout Announced",
      "Smart Communications Launches 5G Network Expansion",
      "Smart Communications smart home fiber plans",
      "Smart TV shipments rise",
      "Smart posts record profit",
      "Work smart with PLDT broadband",
      "Pumunta dito sa Manila for vacation",
      "Dito na ang 5G network ng PLDT",
      "DITO Telecommunity expands 5G coverage",
      "DITO subscribers hit 10 million",
      "Balita dito ay mabilis",
      "DITO subscribers say dito ay mabilis",
      "Punta ka dito",
      "Dito Network outage hits Davao",
      "Golden Globe nominees revealed",
      "Smart Communications sponsors Golden Globe party",
      "Vendée Globe fleet sets sail",
      "Globe expands fiber across the globe",
      "Globe Telecom invests P10 billion",
      "Converge FiberXers win PVL championship",
      "Converge ICT fiber rollout in Visayas",
      "PLDT leadership update",
      "PLDT names new chief",
      "PLDT sponsored forum opens",
      "Globe promo for new subscribers",
      "Globe 5G discount voucher",
      "NTC issues new spectrum policy",
      "PLDT basketball clinic opens",
      "Telco roundup",
      "Untitled" }

TestExcerpts ==
    { "", "PLDT and Globe Telecom expand broadband", "A guide for tourists" }

TestDomains == { "philstar.com", "www.youtube.com", "m.youtu.be", "techblog.example", "News.MB.com.ph" }

TestArticles ==
    { [title |-> t, url |-> "https://" \o d \o "/story", domain_name |-> d,
       engagement |-> [total_shares |-> 10], excerpt |-> e] :
        t \in TestTitles, e \in TestExcerpts, d \in TestDomains }

RECURSIVE SeqsUpTo(_, _)
SeqsUpTo(S, n) ==
    IF n = 0 THEN { <<>> }
    ELSE SeqsUpTo(S, n - 1) \cup { Append(q, x) : q \in SeqsUpTo(S, n - 1), x \in S }

\* the longest list handed to deduplicateArticles alone
MaxDedupLen == 3

dedupArticle(title, url) ==
    [title |-> title, url |-> url, domain_name |-> "news.example.ph",
     engagement |-> [total_shares |-> 10], excerpt |-> ""]

\* articles whose urls differ in letter case, trailing slash, protocol,
\* "www." and query string, and two articles with one url
DedupArticles ==
    { dedupArticle("PLDT 5G rollout", "https://news.example.ph/telco/1"),
      dedupArticle("PLDT 5G rollout, updated", "https://news.example.ph/telco/1"),
      dedupArticle("PLDT 5G rollout", "https://News.Example.ph/telco/1/"),
      dedupArticle("PLDT 5G rollout", "http://www.news.example.ph/telco/1?utm=x"),
      dedupArticle("PLDT 5G rollout", "https://news.example.ph/telco/1//"),
      dedupArticle("NTC issues new spectrum policy", "https://news.example.ph/telco/2") }

FailureKinds == { [kind |-> "network"], [kind |-> "status", status |-> 500],
                  [kind |-> "status", status |-> 429],
                  [kind |-> "badjson"], [kind |-> "noarray"] }

\* the size of the generated base a payload started from
BaseSizeOf(results) ==
    Max({n \in BaseSizes : Len(results) >= n /\ SubSeq(results, 1, n) = BaseItems(n)})

PipeInit ==
    /\ AppIdle /\ SrvIdle
    /\ op = "build" /\ result = null
    /\ \E n \in BaseSizes : args = [kind |-> "json", results |-> BaseItems(n)]

\* the remote side puts one more item in the payload
AddRawItem ==
    /\ op = "build"
    /\ Len(args.results) < BaseSizeOf(args.results) + MaxExtraItems
    /\ \E item \in ExtraItems :
          args' = [args EXCEPT !.results = Append(@, item)]
    /\ UNCHANGED <<op, result>>
    /\ UNCHANGED <<appVars, srvVars>>

\* fetchPhilippineTelcoNews(startDate, endDate) with the payload built so far
FetchCall ==
    /\ op = "build"
    /\ \E key \in BOOLEAN :
          /\ op' = "fetchPhilippineTelcoNews"
          /\ args' = [env |-> [BUZZSUMO_API_KEY |-> key], response |-> args]
          /\ result' = fetchPhilippineTelcoNews([BUZZSUMO_API_KEY |-> key], args)
    /\ UNCHANGED <<appVars, srvVars>>

\* fetchPhilippineTelcoNews when the remote side fails
FetchFailCall ==
    /\ op = "build" /\ args.results = <<>>
    /\ \E response \in FailureKinds :
          /\ op' = "fetchPhilippineTelcoNews"
          /\ args' = [env |-> [BUZZSUMO_API_KEY |-> TRUE], response |-> response]
          /\ result' = fetchPhilippineTelcoNews([BUZZSUMO_API_KEY |-> TRUE], response)
    /\ UNCHANGED <<appVars, srvVars>>

\* validateTelcoRelevance(article)
RelevanceCall ==
    /\ op = "build" /\ args.results = <<>>
    /\ \E a \in TestArticles :
          /\ op' = "validateTelcoRelevance"
          /\ args' = <<a>>
          /\ result' = validateTelcoRelevance(a)
    /\ UNCHANGED <<appVars, srvVars>>

\* deduplicateArticles(articles)
DedupCall ==
    /\ op = "build" /\ args.results = <<>>
    /\ \E articles \in SeqsUpTo(DedupArticles, MaxDedupLen) :
          /\ op' = "deduplicateArticles"
          /\ args' = <<articles>>
          /\ result' = deduplicateArticles(articles)
    /\ UNCHANGED <<appVars, srvVars>>

\* filterImportantArticles([article])
FilterCall ==
    /\ op = "build" /\ args.results = <<>>
    /\ \E a \in TestArticles :
          /\ op' = "filterImportantArticles"
          /\ args' = <<a>>
          /\ result' = filterImportantArticles(<<a>>)
    /\ UNCHANGED <<appVars, srvVars>>

PipeNext ==
    AddRawItem \/ FetchCall \/ FetchFailCall \/ RelevanceCall \/ FilterCall \/ DedupCall

SpecPipeline == PipeInit /\ [][PipeNext]_vars

(***************************************************************************)
(* Claims about the secondary pipeline (SpecPipeline)                      *)
(***************************************************************************)
PipelineRan ==
    /\ op = "fetchPhilippineTelcoNews"
    /\ args.env.BUZZSUMO_API_KEY
    /\ args.response.kind = "json"
    /\ \A i \in DOMAIN args.response.results : ~rawItemThrows(args.response.results[i])

FetchedArticles == mapSeq(rawToArticle, args.response.results)

\* positions of the fetched articles that survive dedup and both filters
Survivors ==
    { i \in DOMAIN FetchedArticles :
        /\ \A j \in 1..(i - 1) : dedupKey(FetchedArticles[j]) # dedupKey(FetchedArticles[i])
        /\ validateTelcoRelevance(FetchedArticles[i])
        /\ isImportantArticle(FetchedArticles[i]) }

Shares(a) == a.engagement.total_shares

\* C7: the output of fetchPhilippineTelcoNews is the top of the surviving
\* articles by total_shares: it has min(15, number of survivors) entries, is
\* sorted by total_shares in descending order, holds only surviving fetched
\* articles (none twice), and every survivor left out has at most the shares
\* of every article in the output.
C7_TopFifteenByShares ==
    PipelineRan =>
        LET out == result.value
            F   == FetchedArticles
            S   == Survivors
        IN  /\ result.status = "fulfilled"
            /\ Len(out) = (IF Cardinality(S) < 15 THEN Cardinality(S) ELSE 15)
            /\ \A k \in 1..(Len(out) - 1) : Shares(out[k]) >= Shares(out[k + 1])
            /\ \A k \in DOMAIN out : \E i \in S : F[i] = out[k]
            /\ \A k, l \in DOMAIN out : k # l => dedupKey(out[k]) # dedupKey(out[l])
            /\ \A i \in S :
                  (\A k \in DOMAIN out : out[k] # F[i])
                      => \A k \in DOMAIN out : Shares(F[i]) <= Shares(out[k])

\* more than 15 articles survive, the output is cut to 15 and a survivor with
\* shares is left out
C7_Witness ==
    /\ PipelineRan
    /\ Cardinality(Survivors) > 15
    /\ Len(result.value) = 15
    /\ \E i \in Survivors :
          /\ Shares(FetchedArticles[i]) > 0
          /\ \A k \in DOMAIN result.value : result.value[k] # FetchedArticles[i]

\* C8: an article that passes validateTelcoRelevance is kept by
\* filterImportantArticles exactly when its domain is no video platform, its
\* lower-cased title holds no sports keyword and no low-importance keyword, and
\* it holds a high-importance keyword or comes from an allow-listed outlet with
\* neither "ad" nor "sponsored" in the title.
C8_ImportanceVerdict ==
    op = "filterImportantArticles" =>
        LET a      == args[1]
            title  == toLowerCase(a.title)
            domain == toLowerCase(a.domain_name)
            video     == includes(domain, "youtube.com") \/ includes(domain, "youtu.be")
            sports    == \E k \in DOMAIN sportsKeywords : includes(title, sportsKeywords[k])
            low       == \E k \in DOMAIN lowImportanceKeywords : includes(title, lowImportanceKeywords[k])
            high      == \E k \in DOMAIN highImportanceKeywords : includes(title, highImportanceKeywords[k])
            allowed   == \E k \in DOMAIN majorNewsSources : includes(domain, majorNewsSources[k])
            adMarker  == includes(title, "ad") \/ includes(title, "sponsored")
        IN  /\ result \in {<<>>, <<a>>}
            /\ validateTelcoRelevance(a) =>
                  ((result = <<a>>) <=>
                      (~video /\ ~sports /\ ~low /\ (high \/ (allowed /\ ~adMarker))))

\* a relevant article of an allow-listed outlet, without high-importance
\* keyword, is dropped for the letters "ad" inside a word of its title
C8_Witness ==
    /\ op = "filterImportantArticles"
    /\ args[1].title = "PLDT leadership update"
    /\ args[1].domain_name = "philstar.com"
    /\ validateTelcoRelevance(args[1])
    /\ result = <<>>

\* C9: a title with "smart" but not "smart communications" that holds one of
\* the generic smart phrases is relevant only if title+excerpt holds a
\* telco-context indicator; a title with "smart communications" is not
\* rejected by the smart rule (it is relevant unless the dito, globe or
\* converge rule rejects it); "New Smart Meter Rollout Announced" without
\* telco words is not relevant.
C9_SmartRule ==
    op = "validateTelcoRelevance" =>
        LET a        == args[1]
            title    == toLowerCase(a.title)
            combined == title \o " " \o toLowerCase(a.excerpt)
            generic  == \E k \in DOMAIN smartFalsePositives : includes(title, smartFalsePositives[k])
            context  == \E k \in DOMAIN telcoCompanyIndicators : includes(combined, telcoCompanyIndicators[k])
        IN  /\ (includes(title, "smart") /\ ~includes(title, "smart communications") /\ generic)
                  => (result = TRUE => context)
            /\ (/\ includes(title, "smart communications")
                /\ ~includes(title, "dito") /\ ~includes(title, "globe")
                /\ ~includes(title, "converge"))
                  => result = TRUE
            /\ (a.title = "New Smart Meter Rollout Announced" /\ ~context) => result = FALSE

C9_Witness ==
    /\ op = "validateTelcoRelevance"
    /\ args[1].title = "New Smart Meter Rollout Announced"
    /\ args[1].excerpt = ""
    /\ result = FALSE

\* C10: for a title with "dito" but neither "dito telecom" nor "dito
\* network": a listed Tagalog phrase in the title makes the article not
\* relevant, telco context or not; without such a phrase the article is
\* relevant only if title+excerpt holds a telco-context indicator;
\* "Pumunta dito sa Manila for vacation" is not relevant.
C10_DitoRule ==
    op = "validateTelcoRelevance" =>
        LET a        == args[1]
            title    == toLowerCase(a.title)
            combined == title \o " " \o toLowerCase(a.excerpt)
            trigger  == /\ includes(title, "dito")
                        /\ ~includes(title, "dito telecom")
                        /\ ~includes(title, "dito network")
            tagalog  == \E k \in DOMAIN ditoFalsePositives : includes(title, ditoFalsePositives[k])
            context  == \E k \in DOMAIN telcoCompanyIndicators : includes(combined, telcoCompanyIndicators[k])
        IN  /\ (trigger /\ tagalog) => result = FALSE
            /\ (trigger /\ ~tagalog) => (result = TRUE => context)
            /\ a.title = "Pumunta dito sa Manila for vacation" => result = FALSE

\* a Tagalog phrase rejects a title although title and excerpt have telco context
C10_Witness ==
    /\ op = "validateTelcoRelevance"
    /\ args[1].title = "Dito na ang 5G network ng PLDT"
    /\ args[1].excerpt = "PLDT and Globe Telecom expand broadband"
    /\ result = FALSE

\* C11: a title with "globe" but not "globe telecom" that holds one of the
\* globe phrases ("vendée globe", "golden globe", "globe award", "around the
\* globe", "across the globe", "globe trot"), or a title with "converge" but
\* not "converge ict" that holds one of "fiberxers", "fiber xers",
\* "basketball", "pba", is not relevant, whatever its telco context;
\* "Converge FiberXers win PVL championship" is not relevant and holds a
\* sports keyword.
C11_GlobeConvergeRule ==
    op = "validateTelcoRelevance" =>
        LET a     == args[1]
            title == toLowerCase(a.title)
            globePhrases == << "vendée globe", "golden globe", "globe award",
                               "around the globe", "across the globe", "globe trot" >>
            convergePhrases == << "fiberxers", "fiber xers", "basketball", "pba" >>
        IN  /\ (/\ includes(title, "globe") /\ ~includes(title, "globe telecom")
                /\ \E k \in DOMAIN globePhrases : includes(title, globePhrases[k]))
                  => result = FALSE
            /\ (/\ includes(title, "converge") /\ ~includes(title, "converge ict")
                /\ \E k \in DOMAIN convergePhrases : includes(title, convergePhrases[k]))
                  => result = FALSE
            /\ a.title = "Converge FiberXers win PVL championship"
                  => /\ result = FALSE
                     /\ \E k \in DOMAIN sportsKeywords : includes(title, sportsKeywords[k])

\* the articles a call of the pipeline or of its filter gave back
Returned ==
    IF op = "fetchPhilippineTelcoNews" THEN result.value
    ELSE IF op = "filterImportantArticles" THEN result
    ELSE <<>>

isVideoDomain(domain) ==
    includes(toLowerCase(domain), "youtube.com") \/ includes(toLowerCase(domain), "youtu.be")

NoneReturnedWith(terms) ==
    \A k \in DOMAIN Returned :
        \A t \in DOMAIN terms : ~includes(toLowerCase(Returned[k].title), terms[t])

HasContext(a) ==
    \E k \in DOMAIN telcoCompanyIndicators :
        includes(toLowerCase(a.title) \o " " \o toLowerCase(a.excerpt),
                 telcoCompanyIndicators[k])

HoldsSmartMeterPhrase(a) ==
    \/ includes(toLowerCase(a.title), "smart meter")
    \/ includes(toLowerCase(a.title), "smart grid")
    \/ includes(toLowerCase(a.title), "smart economics")

HoldsBareDito(a) ==
    /\ includes(toLowerCase(a.title), "dito")
    /\ ~includes(toLowerCase(a.title), "dito telecom")
    /\ ~includes(toLowerCase(a.title), "dito network")

HoldsTagalogPhrase(a) ==
    \E k \in DOMAIN ditoFalsePositives :
        includes(toLowerCase(a.title), ditoFalsePositives[k])

LowerCasedUrl(a) == stripTrailingSlash(toLowerCase(a.url))

\* C16 as stated: after deduplicateArticles no two remaining articles have
\* the same normalized URL, the normalisation being normalizeUrl (protocol,
\* leading "www.", trailing slash and query string discarded, host in lower
\* case).
C16_AsStated ==
    op = "deduplicateArticles" =>
        \A k, l \in DOMAIN result :
            k # l => normalizeUrl(result[k].url) # normalizeUrl(result[l].url)

\* C16: the intra-source Deduplicator keys articles by the url in lower
\* case without one trailing slash: after it runs no two remaining articles
\* have the same such key, and every key of the input is still present.
C16_KeyedByLowerCasedUrl ==
    op = "deduplicateArticles" =>
        /\ \A k, l \in DOMAIN result :
              k # l => LowerCasedUrl(result[k]) # LowerCasedUrl(result[l])
        /\ \A i \in DOMAIN args[1] : \E k \in DOMAIN result :
              LowerCasedUrl(result[k]) = LowerCasedUrl(args[1][i])

\* two articles whose urls differ in letter case and trailing slash only
\* are reduced to one, next to an article with another url
C16_Witness ==
    /\ op = "deduplicateArticles"
    /\ Len(args[1]) = 3 /\ Len(result) = 2
    /\ \E i, j \in DOMAIN args[1] :
          /\ args[1][i].url # args[1][j].url
          /\ toLowerCase(args[1][i].url) # toLowerCase(args[1][j].url)
          /\ LowerCasedUrl(args[1][i]) = LowerCasedUrl(args[1][j])
    /\ \E i, j \in DOMAIN args[1] :
          /\ args[1][i].url # toLowerCase(args[1][i].url)
          /\ LowerCasedUrl(args[1][i]) = LowerCasedUrl(args[1][j])
          /\ args[1][j].url = toLowerCase(args[1][j].url)

\* positions of a list whose dedup key no earlier position has
FirstOccurrences(articles) ==
    { i \in DOMAIN articles :
        \A j \in 1..(i - 1) : dedupKey(articles[j]) # dedupKey(articles[i]) }

\* the k-th smallest member of a set of positions
NthOf(positions, k) ==
    CHOOSE i \in positions : Cardinality({ j \in positions : j <= i }) = k

\* C17: the output of deduplicateArticles is the input restricted to the
\* positions that are the earliest of their dedup key, in input order: a
\* subsequence of the input, the article kept for a key is the earliest one,
\* and an article is dropped only if an earlier one has its key.
C17_StableFirstWins ==
    op = "deduplicateArticles" =>
        LET kept == FirstOccurrences(args[1])
        IN  /\ Len(result) = Cardinality(kept)
            /\ \A k \in DOMAIN result : result[k] = args[1][NthOf(kept, k)]

\* of two different articles with one key the earlier is kept and the later
\* dropped, and an article with another key between them keeps its place
C17_Witness ==
    /\ op = "deduplicateArticles"
    /\ Len(args[1]) = 3
    /\ args[1][1] # args[1][3]
    /\ dedupKey(args[1][1]) = dedupKey(args[1][3])
    /\ dedupKey(args[1][1]) # dedupKey(args[1][2])
    /\ result = <<args[1][1], args[1][2]>>

\* C18: deduplicateArticles is idempotent: applied to its own output it
\* gives that output back, the same articles in the same order.
C18_Idempotent ==
    op = "deduplicateArticles" => deduplicateArticles(result) = result

\* three different articles with one key are reduced to the first of them,
\* and a second run leaves that list as it is
C18_Witness ==
    /\ op = "deduplicateArticles"
    /\ Len(args[1]) = 3
    /\ Cardinality({ args[1][i] : i \in DOMAIN args[1] }) = 3
    /\ result = <<args[1][1]>>
    /\ deduplicateArticles(result) = <<args[1][1]>>

\* the token "dito" is followed by one of sa, ang, na, pa, ay somewhere
DitoBeforeTagalogWord(title) ==
    LET words == splitWords(title, "")
    IN  \E i \in DOMAIN words :
            /\ words[i] = "dito"
            /\ i + 1 \in DOMAIN words
            /\ \E k \in DOMAIN tagalogNextWords : words[i + 1] = tagalogNextWords[k]

\* C25: a title with "dito" but neither "dito telecom" nor "dito network" in
\* which, at any position, the token after "dito" is one of sa, ang, na, pa,
\* ay is not relevant, whatever telco context title and excerpt hold.
C25_DitoNextToken ==
    op = "validateTelcoRelevance" =>
        LET title == toLowerCase(args[1].title)
        IN  (/\ includes(title, "dito")
             /\ ~includes(title, "dito telecom") /\ ~includes(title, "dito network")
             /\ DitoBeforeTagalogWord(title))
                => result = FALSE

\* C26: validateTelcoRelevance is the conjunction of the smart, dito, globe
\* and converge checks: an article that one check rejects is not relevant
\* whatever the other three say, in whatever order they are taken, and a
\* title with none of "smart", "dito", "globe", "converge" is relevant.
C26_ConjunctionOfChecks ==
    op = "validateTelcoRelevance" =>
        LET title    == toLowerCase(args[1].title)
            combined == title \o " " \o toLowerCase(args[1].excerpt)
        IN  /\ result = (/\ ~convergeRejects(title) /\ ~globeRejects(title)
                         /\ ~ditoRejects(title, combined) /\ ~smartRejects(title, combined))
            /\ smartRejects(title, combined) => result = FALSE
            /\ ditoRejects(title, combined) => result = FALSE
            /\ globeRejects(title) => result = FALSE
            /\ convergeRejects(title) => result = FALSE
            /\ (/\ ~includes(title, "smart") /\ ~includes(title, "dito")
                /\ ~includes(title, "globe") /\ ~includes(title, "converge"))
                  => result = TRUE

\* a title with the exception of the smart check ("smart communications")
\* and a phrase the globe check rejects ("golden globe") is not relevant
C26_Witness ==
    /\ op = "validateTelcoRelevance"
    /\ includes(toLowerCase(args[1].title), "smart communications")
    /\ includes(toLowerCase(args[1].title), "golden globe")
    /\ ~smartRejects(toLowerCase(args[1].title),
                     toLowerCase(args[1].title) \o " " \o toLowerCase(args[1].excerpt))
    /\ result = FALSE

(***************************************************************************)
(* Normalisation, duplicate test and merge applied to bounded inputs       *)
(***************************************************************************)
\* the spellings of one URL: protocol, "www.", letter case of the host, one
\* trailing slash and the query string vary; host and path are the rest
UrlSchemes   == { "https://", "http://", "HTTPS://" }
UrlWww       == { "", "www.", "WWW." }
UrlHosts     == { "example.com", "Example.com", "EXAMPLE.COM", "news.Site.ph" }
UrlPaths     == { "", "/news/story", "/News/2025/Story_1" }
UrlSlashes   == { "", "/" }
UrlQueries   == { "", "?utm=1", "?a=b&next=/x/" }

UrlSpellings ==
    { s \o w \o h \o p \o t \o q :
        s \in UrlSchemes, w \in UrlWww, h \in UrlHosts, p \in UrlPaths,
        t \in UrlSlashes, q \in UrlQueries }

\* inputs new URL() cannot parse
UnparseableUrls ==
    { "", "not a url", "https://", "http:///", "example.com/news/story/",
      "www.Example.com/News?x=1", "/relative/path/", "WWW.EXAMPLE.COM/a/?q=1" }

TitleInputs ==
    { "PLDT launches 5G network in Cebu",
      "PLDT Launches 5G  Network in Cebu!",
      "PLDT launches 5G network in Cebu, Davao and Iloilo",
      "PLDT 5G go", "PLDT 5G go live",
      "PLDT 5G now", "PLDT 5G now live",
      "Globe Telecom:\tQ3 profit", " globe telecom q3 profit ",
      "", "!!!" }

UriInputs ==
    { "https://Example.com/news/story/", "https://www.example.com/news/story?utm=1",
      "https://other.example/a", "http://other.example/b", "not a url" }

newsArticle(title, uri) ==
    [title |-> title, summary |-> "", takeaways |-> <<"", "">>,
     source |-> [title |-> "", uri |-> uri]]

NewsArticleInputs == { newsArticle(t, u) : t \in TitleInputs, u \in UriInputs }

CompanyNames == << "PLDT", "Globe Telecom", "Converge ICT", "DITO Telecommunity" >>

\* how many BuzzSumo articles a merge gets
MaxBuzzLen == 2

PrimaryArticles ==
    { newsArticle("PLDT launches 5G network in Cebu", "https://www.example.com/news/story?utm=1"),
      newsArticle("PLDT 5G go", "https://other.example/a"),
      newsArticle("Globe Telecom Q3 profit rises on data demand", "https://other.example/b") }

buzzArticle(title, url, shares) ==
    [title |-> title, url |-> url, domain_name |-> "philstar.com",
     engagement |-> [total_shares |-> shares], excerpt |-> ""]

BuzzArticles ==
    { \* same normalized URL as the first primary article, another title
      buzzArticle("Cebu gets 5G", "https://Example.com/news/story/", 10),
      \* contains the 10-character title of the second primary article
      buzzArticle("PLDT 5G go live", "https://philstar.com/x", 20),
      \* contained in the title of the third primary article, longer than 10
      buzzArticle("Globe Telecom Q3 profit rises", "https://philstar.com/y", 30),
      \* the title of the third primary article with one word put in
      buzzArticle("Globe Telecom Q3 profit rises sharply on data demand",
                  "https://philstar.com/w", 50),
      \* duplicate of nothing
      buzzArticle("NTC issues new spectrum policy", "https://philstar.com/z", 40) }

BucketInputs == { <<>> } \cup { <<a>> : a \in PrimaryArticles }

GoogleNewsInputs ==
    { [ internationalNews |-> i, generalNews |-> g,
        companyNews |-> [k \in DOMAIN CompanyNames |->
                            [companyName |-> CompanyNames[k],
                             articles |-> IF k = 2 THEN c ELSE <<>>]] ] :
        i \in BucketInputs, g \in BucketInputs, c \in BucketInputs }

MergeInit == AppIdle /\ SrvIdle /\ FnIdle

\* normalizeUrl(url)
NormalizeUrlCall ==
    /\ op = "idle"
    /\ \E url \in UrlSpellings \cup UnparseableUrls :
          /\ op' = "normalizeUrl"
          /\ args' = <<url>>
          /\ result' = normalizeUrl(url)
    /\ UNCHANGED <<appVars, srvVars>>

\* areDuplicateArticles(article1, article2)
DuplicateCall ==
    /\ op = "idle"
    /\ \E a \in NewsArticleInputs, b \in NewsArticleInputs :
          /\ op' = "areDuplicateArticles"
          /\ args' = <<a, b>>
          /\ result' = areDuplicateArticles(a, b)
    /\ UNCHANGED <<appVars, srvVars>>

\* mergeNewsWithBuzzSumo(googleNews, buzzsumoArticles)
MergeCall ==
    /\ op = "idle"
    /\ \E g \in GoogleNewsInputs, b \in SeqsUpTo(BuzzArticles, MaxBuzzLen) :
          /\ op' = "mergeNewsWithBuzzSumo"
          /\ args' = <<g, b>>
          /\ result' = mergeNewsWithBuzzSumo(g, b)
    /\ UNCHANGED <<appVars, srvVars>>

MergeNext == NormalizeUrlCall \/ DuplicateCall \/ MergeCall

SpecMerge == MergeInit /\ [][MergeNext]_vars

(***************************************************************************)
(* Claims about normalisation, duplicates and merge (SpecMerge)            *)
(***************************************************************************)
\* one normalized title holds the other
TitleContained(a, b) ==
    LET t1 == normalizeTitle(a.title)
        t2 == normalizeTitle(b.title)
    IN  includes(t1, t2) \/ includes(t2, t1)

\* the articles of all three buckets of a NewsData
AllPrimary(g) ==
    { g.internationalNews[i] : i \in DOMAIN g.internationalNews }
        \cup { g.generalNews[i] : i \in DOMAIN g.generalNews }
        \cup UNION { { g.companyNews[k].articles[i] : i \in DOMAIN g.companyNews[k].articles } :
                        k \in DOMAIN g.companyNews }

\* positions of the secondary articles that duplicate no primary article
UniquePositions(g, b) ==
    { i \in DOMAIN b :
        \A e \in AllPrimary(g) : ~areDuplicateArticles(e, convertBuzzSumoToNewsArticle(b[i])) }

\* the merge keeps international bucket and company sections, and appends to
\* the general bucket exactly the secondary articles that duplicate no primary
\* article of any bucket, in their order
MergeAppendsUnique ==
    LET g == args[1]
        b == args[2]
        U == UniquePositions(g, b)
        n == Len(g.generalNews)
    IN  /\ result.internationalNews = g.internationalNews
        /\ result.companyNews = g.companyNews
        /\ Len(result.generalNews) = n + Cardinality(U)
        /\ SubSeq(result.generalNews, 1, n) = g.generalNews
        /\ \A i \in U :
              result.generalNews[n + Cardinality({j \in U : j <= i})]
                  = convertBuzzSumoToNewsArticle(b[i])

\* each source returns one article, the primary one in the general bucket, with
\* different normalized URLs
OneArticleEach ==
    /\ op = "mergeNewsWithBuzzSumo"
    /\ Len(args[1].generalNews) = 1 /\ Cardinality(AllPrimary(args[1])) = 1
    /\ Len(args[1].internationalNews) = 0
    /\ Len(args[2]) = 1
    /\ normalizeUrl(args[1].generalNews[1].source.uri) # normalizeUrl(args[2][1].url)

\* C4 as stated: the merge appends the unique secondary articles, and when
\* each source returns one article with different URLs and one normalized
\* title containing the other, the merged general bucket holds one article.
C4_AsStated ==
    op = "mergeNewsWithBuzzSumo" =>
        /\ MergeAppendsUnique
        /\ (OneArticleEach
            /\ TitleContained(args[1].generalNews[1], convertBuzzSumoToNewsArticle(args[2][1])))
              => Len(result.generalNews) = 1

\* C4 (amended): the merge appends the unique secondary articles, and when
\* each source returns one article with different URLs and one normalized
\* title containing the other, the merged general bucket holds one article
\* provided the contained title is longer than 10 characters or the two
\* normalized titles are equal.
C4_MergeAppendsUnique ==
    op = "mergeNewsWithBuzzSumo" =>
        /\ MergeAppendsUnique
        /\ LET e  == args[1].generalNews[1]
               c  == convertBuzzSumoToNewsArticle(args[2][1])
               t1 == normalizeTitle(e.title)
               t2 == normalizeTitle(c.title)
           IN  (/\ OneArticleEach
                /\ TitleContained(e, c)
                /\ (t1 = t2 \/ (IF Len(t1) < Len(t2) THEN Len(t1) ELSE Len(t2)) > 10))
                  => Len(result.generalNews) = 1

\* one article each, the secondary title contained in the primary one and
\* longer than 10 characters: the general bucket keeps the single primary copy
C4_Witness ==
    /\ OneArticleEach
    /\ args[1].generalNews[1].title = "Globe Telecom Q3 profit rises on data demand"
    /\ args[2][1].title = "Globe Telecom Q3 profit rises"
    /\ result.generalNews = args[1].generalNews

C6_UrlNormalization ==
    /\ op = "normalizeUrl" =>
          /\ result \in STRING
          /\ \A s \in UrlSchemes, w \in UrlWww, h \in UrlHosts, p \in UrlPaths,
                t \in UrlSlashes, q \in UrlQueries :
                args[1] = s \o w \o h \o p \o t \o q => result = toLowerCase(h) \o p
          /\ args[1] \in { "https://Example.com/news/story/",
                           "https://www.example.com/news/story?utm=1" }
                => result = "example.com/news/story"
    /\ (/\ op = "areDuplicateArticles"
        /\ args[1].source.uri = "https://Example.com/news/story/"
        /\ args[2].source.uri = "https://www.example.com/news/story?utm=1")
          => result = TRUE

\* a spelling with "WWW.", upper-case host, trailing slash and query is normalized
C6_Witness ==
    /\ op = "normalizeUrl"
    /\ args[1] = "HTTPS://WWW.EXAMPLE.COM/news/story/?utm=1"
    /\ result = "example.com/news/story"

(***************************************************************************)
(* App.tsx: the fetch request and the presentation request                 *)
(***************************************************************************)
\* variant: the join of Promise.all, over as soon as one promise has rejected
allSettled_FailFast(p, q) ==
    \/ Settled(p) /\ Settled(q)
    \/ p.status = "rejected" \/ q.status = "rejected"

\* Promise.allSettled([p, q]) is settled when both promises are
allSettled(p, q) == Settled(p) /\ Settled(q)

\* variant: the BuzzSumo result is stored before the Gemini result is looked at
afterAllSettled_SecondaryFirst(g, b, state) ==
    LET stored == IF b.status = "fulfilled"
                  THEN [state EXCEPT !.buzzsumoArticles = b.value] ELSE state
    IN  IF g.status = "fulfilled"
        THEN [stored EXCEPT !.newsData = Some(g.value.data)]
        ELSE [stored EXCEPT !.error = Some(g.reason.message)]

\* handleFetchNews after the await: the try block up to the throw, and the catch
afterAllSettled(g, b, state) ==
    IF g.status = "fulfilled"
    THEN [state EXCEPT !.newsData = Some(g.value.data),
                       !.buzzsumoArticles = IF b.status = "fulfilled" THEN b.value ELSE @]
    ELSE [state EXCEPT !.error = Some(g.reason.message)]

\* articles of a NewsData
allArticles(data) ==
    data.internationalNews \o data.generalNews
        \o flatten([k \in DOMAIN data.companyNews |-> data.companyNews[k].articles])

hasNews == newsData # null /\ allArticles(newsData[1]) # <<>>

\* a parsed Gemini payload
parsedOf(data, notArrays, badNames, badArticles) ==
    [ internationalNews |-> data.internationalNews,
      generalNews       |-> data.generalNews,
      companyNews       |-> [k \in DOMAIN data.companyNews |->
                                [companyName |-> data.companyNews[k].companyName,
                                 articles    |-> data.companyNews[k].articles,
                                 nameIsString    |-> k \notin badNames,
                                 articlesIsArray |-> k \notin badArticles]],
      notArrays         |-> notArrays ]

newsDataOf(international, general, globe) ==
    [ internationalNews |-> international, generalNews |-> general,
      companyNews |-> [k \in DOMAIN CompanyNames |->
                          [companyName |-> CompanyNames[k],
                           articles |-> IF k = 2 THEN globe ELSE <<>>]] ]

GroundingUri == "https://vertexaisearch.cloud.google.com/grounding-api-redirect/AbC"

NewsDataInputs ==
    { newsDataOf(<<>>, <<>>, <<>>),
      newsDataOf(<<>>, <<newsArticle("PLDT 5G go", "https://other.example/a")>>,
                 <<newsArticle("Globe Telecom fiber deployment", "https://mb.com.ph/globe-fiber/")>>),
      newsDataOf(<<newsArticle("NTC issues new spectrum policy ", GroundingUri)>>, <<>>, <<>>) }

GroundingChunkInputs ==
    { <<>>,
      << [title |-> "", uri |-> "https://untitled.example/"],
         [title |-> "spectrum policy", uri |-> "https://lenient.example/ntc"],
         [title |-> "NTC issues new spectrum policy", uri |-> "https://www.philstar.com/business/ntc"] >> }

GeminiFailures ==
    { [kind |-> "network", message |-> "fetch failed"],
      [kind |-> "empty", finishReason |-> "SAFETY"],
      [kind |-> "empty", finishReason |-> "STOP"],
      [kind |-> "nojson", text |-> "No news was found."],
      [kind |-> "badjson", text |-> "{ news }",
       parserError |-> "Unexpected token n in JSON at position 2"] }

GeminiResponses ==
    GeminiFailures
    \cup { [kind |-> "json", parsed |-> parsedOf(d, {}, {}, {}), chunks |-> c] :
              d \in NewsDataInputs, c \in GroundingChunkInputs }
    \cup { [kind |-> "json", chunks |-> <<>>,
            parsed |-> parsedOf(newsDataOf(<<>>, <<>>, <<>>), {"generalNews"}, {}, {})],
           [kind |-> "json", chunks |-> <<>>,
            parsed |-> parsedOf(newsDataOf(<<>>, <<>>, <<>>), {}, {3}, {})],
           [kind |-> "json", chunks |-> <<>>,
            parsed |-> parsedOf(newsDataOf(<<>>, <<>>, <<>>), {}, {}, {4})] }

BuzzsumoResponses ==
    FailureKinds
    \cup { [kind |-> "json", results |-> r] :
              r \in { <<>>,
                      << rawItem("", "", "", 0, "") >>,
                      << rawItem("PLDT 5G go live", "https://philstar.com/x", "philstar.com", 20, ""),
                         rawItem("NTC issues new spectrum policy",
                                 "https://www.philstar.com/business/ntc", "philstar.com", 700, "") >>,
                      << rawItem("Globe Telecom fiber deployment", "https://mb.com.ph/globe-fiber",
                                 "", 0, "") >> } }

\* what generatePresentationFromNews can give: a presentation, or an Error
PresentationOutcomes ==
    { [ok |-> TRUE,  presentation |-> [title |-> "Telco News Briefing",
                                       slides |-> << [type |-> "title"], [type |-> "news"] >>]],
      [ok |-> TRUE,  presentation |-> [title |-> "Telco News Briefing", slides |-> <<>>]],
      [ok |-> FALSE, message |-> "API_KEY environment variable not set."],
      [ok |-> FALSE, message |-> "An error occurred while generating the presentation: fetch failed"] }

\* variant: the data of the earlier request is left in place
HandleFetchNews_KeepsNewsData ==
    /\ op = "App"
    /\ ~loading /\ ~generatingPresentation
    /\ loading' = TRUE
    /\ error' = null
    /\ presentation' = null
    /\ hasFetched' = TRUE
    /\ geminiResult' = Pending
    /\ buzzsumoResult' = Pending
    /\ buzzsumoCall' = null
    /\ UNCHANGED <<generatingPresentation, mergedData, newsData, buzzsumoArticles>>
    /\ UNCHANGED <<srvVars, fnVars>>

\* variant: the Fetch button is never disabled
HandleFetchNews_NotDisabled ==
    /\ op = "App"
    /\ loading' = TRUE
    /\ error' = null
    /\ newsData' = null
    /\ buzzsumoArticles' = <<>>
    /\ presentation' = null
    /\ hasFetched' = TRUE
    /\ geminiResult' = Pending
    /\ buzzsumoResult' = Pending
    /\ buzzsumoCall' = null
    /\ UNCHANGED <<generatingPresentation, mergedData>>
    /\ UNCHANGED <<srvVars, fnVars>>

\* the Fetch button is enabled and clicked with a valid date range
HandleFetchNews ==
    /\ op = "App"
    /\ ~loading /\ ~generatingPresentation
    /\ loading' = TRUE
    /\ error' = null
    /\ newsData' = null
    /\ buzzsumoArticles' = <<>>
    /\ presentation' = null
    /\ hasFetched' = TRUE
    /\ geminiResult' = Pending
    /\ buzzsumoResult' = Pending
    /\ buzzsumoCall' = null
    /\ UNCHANGED <<generatingPresentation, mergedData>>
    /\ UNCHANGED <<srvVars, fnVars>>

\* the promise of fetchTelcoNews(startDate, endDate) settles
GeminiSettles ==
    /\ op = "App"
    /\ geminiResult = Pending
    /\ \E key \in BOOLEAN, response \in GeminiResponses :
          geminiResult' = fetchTelcoNews([API_KEY |-> key], response)
    /\ UNCHANGED <<loading, generatingPresentation, error, newsData, buzzsumoArticles,
                   presentation, hasFetched, buzzsumoResult, mergedData, buzzsumoCall>>
    /\ UNCHANGED <<srvVars, fnVars>>

\* the promise of fetchPhilippineTelcoNews(startDate, endDate) settles
BuzzsumoSettles ==
    /\ op = "App"
    /\ buzzsumoResult = Pending
    /\ \E key \in BOOLEAN, response \in BuzzsumoResponses :
          LET env == [BUZZSUMO_API_KEY |-> key]
          IN  /\ buzzsumoCall' = Some([env |-> env, response |-> response])
              /\ buzzsumoResult' = fetchPhilippineTelcoNews(env, response)
    /\ UNCHANGED <<loading, generatingPresentation, error, newsData, buzzsumoArticles,
                   presentation, hasFetched, geminiResult, mergedData>>
    /\ UNCHANGED <<srvVars, fnVars>>

\* handleFetchNews resumes after await Promise.allSettled([...])
FetchNewsResumes ==
    /\ op = "App"
    /\ loading
    /\ allSettled(geminiResult, buzzsumoResult)
    /\ LET after == afterAllSettled(geminiResult, buzzsumoResult,
                                    [newsData |-> newsData,
                                     buzzsumoArticles |-> buzzsumoArticles,
                                     error |-> error])
       IN  /\ newsData' = after.newsData
           /\ buzzsumoArticles' = after.buzzsumoArticles
           /\ error' = after.error
    /\ loading' = FALSE
    /\ UNCHANGED <<generatingPresentation, presentation, hasFetched, geminiResult,
                   buzzsumoResult, mergedData, buzzsumoCall>>
    /\ UNCHANGED <<srvVars, fnVars>>

\* variant: the merged data is stored back as newsData
HandleGeneratePresentation_StoresMerged ==
    /\ op = "App"
    /\ hasNews /\ ~loading /\ ~generatingPresentation
    /\ newsData # null
    /\ generatingPresentation' = TRUE
    /\ error' = null
    /\ mergedData' = Some(mergeNewsWithBuzzSumo(newsData[1], buzzsumoArticles))
    /\ newsData' = mergedData'
    /\ UNCHANGED <<loading, buzzsumoArticles, presentation, hasFetched,
                   geminiResult, buzzsumoResult, buzzsumoCall>>
    /\ UNCHANGED <<srvVars, fnVars>>

\* the Generate button is shown, enabled and clicked
HandleGeneratePresentation ==
    /\ op = "App"
    /\ hasNews /\ ~loading /\ ~generatingPresentation
    /\ newsData # null
    /\ generatingPresentation' = TRUE
    /\ error' = null
    /\ mergedData' = Some(mergeNewsWithBuzzSumo(newsData[1], buzzsumoArticles))
    /\ UNCHANGED <<loading, newsData, buzzsumoArticles, presentation, hasFetched,
                   geminiResult, buzzsumoResult, buzzsumoCall>>
    /\ UNCHANGED <<srvVars, fnVars>>

\* the promise of generatePresentationFromNews(mergedData, dateRange) settles and
\* handleGeneratePresentation runs to its end
PresentationSettles ==
    /\ op = "App"
    /\ generatingPresentation
    /\ \E outcome \in PresentationOutcomes :
          IF outcome.ok
          THEN presentation' = Some(outcome.presentation) /\ error' = error
          ELSE error' = Some(outcome.message) /\ presentation' = presentation
    /\ generatingPresentation' = FALSE
    /\ mergedData' = null
    /\ UNCHANGED <<loading, newsData, buzzsumoArticles, hasFetched,
                   geminiResult, buzzsumoResult, buzzsumoCall>>
    /\ UNCHANGED <<srvVars, fnVars>>

\* PresentationViewer onClose
ClosePresentation ==
    /\ op = "App"
    /\ presentation # null
    /\ presentation' = null
    /\ UNCHANGED <<loading, generatingPresentation, error, newsData, buzzsumoArticles,
                   hasFetched, geminiResult, buzzsumoResult, mergedData, buzzsumoCall>>
    /\ UNCHANGED <<srvVars, fnVars>>

AppNext ==
    \/ HandleFetchNews \/ GeminiSettles \/ BuzzsumoSettles \/ FetchNewsResumes
    \/ HandleGeneratePresentation \/ PresentationSettles \/ ClosePresentation

(***************************************************************************)
(* The server: GET /api/news                                               *)
(***************************************************************************)
srvGlobeFalsePositives ==
    << "vendée globe", "golden globe", "globe award",
       "around the globe", "across the globe", "globe trot" >>

srvValidateTelcoRelevance(article) ==
    LET title    == toLowerCase(article.title)
        excerpt  == toLowerCase(article.excerpt)
        combined == title \o " " \o excerpt
    IN  IF smartRejects(title, combined) THEN FALSE
        ELSE IF ditoRejects(title, combined) THEN FALSE
        ELSE IF /\ includes(title, "globe") /\ ~includes(title, "globe telecom")
                /\ someIncluded(title, srvGlobeFalsePositives) THEN FALSE
        ELSE IF convergeRejects(title) THEN FALSE
        ELSE TRUE

srvIsImportantArticle(article) ==
    LET title  == toLowerCase(article.title)
        domain == toLowerCase(article.domain_name)
    IN  IF ~srvValidateTelcoRelevance(article) THEN FALSE
        ELSE IF includes(domain, "youtube.com") \/ includes(domain, "youtu.be") THEN FALSE
        ELSE IF someIncluded(title, sportsKeywords) THEN FALSE
        ELSE IF someIncluded(title, lowImportanceKeywords) THEN FALSE
        ELSE LET hasImportantKeyword == someIncluded(title, highImportanceKeywords)
                 isMajorNewsSource   == someIncluded(domain, majorNewsSources)
             IN  hasImportantKeyword
                 \/ (isMajorNewsSource /\ ~includes(title, "ad") /\ ~includes(title, "sponsored"))

\* the server's fetchBuzzSumoNews: TRUE when it returns the mapped articles
srvFetchBuzzSumoNewsOk(env, response) ==
    /\ env.BUZZSUMO_API_KEY
    /\ response.kind = "json"
    /\ \A i \in DOMAIN response.results : ~rawItemThrows(response.results[i])

\* how the promise of the server's fetchPhilippineTelcoNews settles
srvFetchPhilippineTelcoNews(env, response) ==
    IF srvFetchBuzzSumoNewsOk(env, response)
    THEN LET articles          == mapSeq(rawToArticle, response.results)
             uniqueArticles    == deduplicateArticles(articles)
             importantArticles == filterSeq(srvIsImportantArticle, uniqueArticles)
         IN  [status |-> "fulfilled", value |-> slice0(sortByShares(importantArticles), DisplayLimit)]
    ELSE [status |-> "fulfilled", value |-> <<>>]

isBrokenGroundingUrl(url) ==
    \/ includes(url, "vertexaisearch")
    \/ includes(url, "grounding-api-redirect")
    \/ includes(url, "googleusercontent.com/grounding")

\* norm.split(' ') as a set
titleWords(norm) == { splitWords(norm, "")[i] : i \in DOMAIN splitWords(norm, "") }

\* calculateTitleSimilarity as the fraction <<numerator, denominator>>
calculateTitleSimilarity(title1, title2) ==
    LET norm1  == normalizeTitle(title1)
        norm2  == normalizeTitle(title2)
        words1 == titleWords(norm1)
        words2 == titleWords(norm2)
    IN  IF norm1 = norm2 THEN <<1, 1>>
        ELSE <<Cardinality(words1 \cap words2), Cardinality(words1 \cup words2)>>

\* x >= n/d and x > y for fractions with positive denominators
fracAtLeast(x, n, d) == x[1] * d >= n * x[2]
fracGreater(x, y)    == x[1] * y[2] > y[1] * x[2]

\* the loop of findMatchingBuzzSumoUrl: the index of bestMatch (0 for null)
RECURSIVE bestBuzzSumoMatch(_, _, _, _)
bestBuzzSumoMatch(title, articles, i, best) ==
    IF i > Len(articles) THEN best
    ELSE LET similarity     == calculateTitleSimilarity(title, articles[i].title)
             bestSimilarity == IF best = 0 THEN <<0, 1>>
                               ELSE calculateTitleSimilarity(title, articles[best].title)
         IN  IF fracGreater(similarity, bestSimilarity) /\ fracAtLeast(similarity, 1, 2)
             THEN bestBuzzSumoMatch(title, articles, i + 1, i)
             ELSE bestBuzzSumoMatch(title, articles, i + 1, best)

\* findMatchingBuzzSumoUrl: "" stands for null (an empty url is falsy as well)
findMatchingBuzzSumoUrl(title, articles) ==
    LET best == bestBuzzSumoMatch(title, articles, 1, 0)
    IN  IF best = 0 THEN "" ELSE articles[best].url

\* groundingChunks.find(...) of fixAndValidateArticleUrls: 0 when none matches
srvMatchingChunk(article, chunks) ==
    LET matches == { i \in DOMAIN chunks :
                       /\ chunks[i].title # "" /\ chunks[i].uri # ""
                       /\ ~isBrokenGroundingUrl(chunks[i].uri)
                       /\ fracAtLeast(calculateTitleSimilarity(article.title, chunks[i].title), 6, 10) }
    IN  IF matches = {} THEN 0 ELSE CHOOSE i \in matches : \A j \in matches : i <= j

\* The network as the server meets it while it repairs links: net.resolved is
\* what resolveUrl gives for the urls it can follow (every other url gives
\* valid: false), net.live the urls validateUrl accepts.
resolveUrl(url, net) ==
    IF url \in DOMAIN net.resolved THEN net.resolved[url]
    ELSE [url |-> url, valid |-> FALSE]

validateUrl(url, net) == url \in net.live

\* article._urlBroken = true
markBroken(article) ==
    [title |-> article.title, summary |-> article.summary, takeaways |-> article.takeaways,
     source |-> article.source, urlBroken |-> TRUE]

\* step 2c: the BuzzSumo article with a matching title
fixFromBuzzSumo(article, buzzsumoUrl) ==
    IF buzzsumoUrl # ""
    THEN [article |-> article, currentUrl |-> buzzsumoUrl, urlFixed |-> TRUE]
    ELSE [article |-> article, currentUrl |-> article.source.uri, urlFixed |-> FALSE]

\* step 2b: the grounding chunk with a similar title
fixFromChunk(article, chunk, groundingChunks, articles) ==
    IF chunk # 0
    THEN [article    |-> [article EXCEPT !.source.title = groundingChunks[chunk].title],
          currentUrl |-> groundingChunks[chunk].uri,
          urlFixed   |-> TRUE]
    ELSE fixFromBuzzSumo(article, findMatchingBuzzSumoUrl(article.title, articles))

\* step 2a: the redirect followed
fixFromRedirect(article, resolved, groundingChunks, articles) ==
    IF resolved.valid /\ ~isBrokenGroundingUrl(resolved.url)
    THEN [article |-> article, currentUrl |-> resolved.url, urlFixed |-> TRUE]
    ELSE fixFromChunk(article,
                      IF groundingChunks # <<>>
                      THEN srvMatchingChunk(article, groundingChunks) ELSE 0,
                      groundingChunks, articles)

\* steps 1 and 2: the article, the url to validate and whether it was replaced
fixBrokenUrl(article, groundingChunks, articles, net) ==
    IF isBrokenGroundingUrl(article.source.uri)
    THEN fixFromRedirect(article, resolveUrl(article.source.uri, net), groundingChunks, articles)
    ELSE [article |-> article, currentUrl |-> article.source.uri, urlFixed |-> FALSE]

\* variant: the BuzzSumo url of the last resort is taken without validation
lastResort_Unchecked(article, buzzsumoUrl, net) ==
    IF buzzsumoUrl # ""
    THEN [article EXCEPT !.source.uri = buzzsumoUrl]
    ELSE markBroken(article)

\* the last resort of step 3
lastResort(article, buzzsumoUrl, net) ==
    IF buzzsumoUrl # "" /\ validateUrl(buzzsumoUrl, net)
    THEN [article EXCEPT !.source.uri = buzzsumoUrl]
    ELSE markBroken(article)

\* step 3 and the marking of the failed articles
validateFixed(originalUrl, fixed, articles, net) ==
    IF fixed.currentUrl # originalUrl \/ ~isBrokenGroundingUrl(fixed.currentUrl)
    THEN IF validateUrl(fixed.currentUrl, net)
         THEN [fixed.article EXCEPT !.source.uri = fixed.currentUrl]
         ELSE IF ~fixed.urlFixed
              THEN lastResort(fixed.article,
                              findMatchingBuzzSumoUrl(fixed.article.title, articles), net)
              ELSE markBroken(fixed.article)
    ELSE markBroken(fixed.article)

\* the body of the loop of fixAndValidateArticleUrls, for one article
fixAndValidateArticle(article, groundingChunks, articles, net) ==
    validateFixed(article.source.uri,
                  fixBrokenUrl(article, groundingChunks, articles, net), articles, net)

fixAndValidateArticleUrls(parsedData, groundingChunks, articles, net) ==
    LET fix(a) == fixAndValidateArticle(a, groundingChunks, articles, net)
    IN  [ internationalNews |-> mapSeq(fix, parsedData.internationalNews),
          generalNews       |-> mapSeq(fix, parsedData.generalNews),
          companyNews       |-> [k \in DOMAIN parsedData.companyNews |->
                                    [companyName |-> parsedData.companyNews[k].companyName,
                                     articles    |-> mapSeq(fix, parsedData.companyNews[k].articles)]] ]

\* the /api/news handler after the await: the response it sends.  A section
\* whose articles are no array makes fixAndValidateArticleUrls throw, which the
\* handler's catch answers.
srvRespond(g, b, net) ==
    IF g.status = "rejected"
    THEN [status |-> 500, body |-> [error   |-> "Failed to fetch news from Gemini API",
                                    details |-> g.reason.message]]
    ELSE LET articles == IF b.status = "fulfilled" THEN b.value ELSE <<>>
         IN  IF \E k \in DOMAIN g.value.parsedData.companyNews :
                    ~g.value.parsedData.companyNews[k].articlesIsArray
             THEN [status |-> 500,
                   body |-> [error   |-> "Internal server error",
                             details |-> "Cannot read properties of undefined (reading 'source')"]]
             ELSE [status |-> 200,
                   body |-> [geminiNews |-> fixAndValidateArticleUrls(dataOf(g.value.parsedData),
                                                g.value.groundingChunks, articles, net),
                             buzzsumoArticles |-> articles]]

ResolvedUrl == "https://www.philstar.com/business/ntc"

NetInputs ==
    { [resolved |-> r, live |-> l] :
        r \in { [u \in {} |-> 0],
                [u \in {GroundingUri} |-> [url |-> ResolvedUrl, valid |-> TRUE]],
                [u \in {GroundingUri} |-> [url |-> GroundingUri, valid |-> TRUE]] },
        l \in { {}, {ResolvedUrl, "https://other.example/a"},
                {"https://lenient.example/ntc", "https://mb.com.ph/globe-fiber/"} } }

\* a GET /api/news request arrives while no other is being handled
SrvRequest ==
    /\ op = "server"
    /\ srvGemini # Pending /\ srvBuzzsumo # Pending
    /\ ~(allSettled(srvGemini, srvBuzzsumo) /\ srvResponse = null)
    /\ \E hasDates \in BOOLEAN :
          IF hasDates
          THEN /\ srvGemini' = Pending /\ srvBuzzsumo' = Pending
               /\ srvResponse' = null
          ELSE /\ srvGemini' = NoPromise /\ srvBuzzsumo' = NoPromise
               /\ srvResponse' = Some([status |-> 400,
                                       body |-> [error |-> "Missing required parameters: startDate and endDate"]])
    /\ UNCHANGED <<appVars, fnVars>>

\* the promise of fetchGeminiNews(startDate, endDate) settles
SrvGeminiSettles ==
    /\ op = "server"
    /\ srvGemini = Pending
    /\ \E key \in BOOLEAN, response \in GeminiResponses :
          srvGemini' = fetchGeminiNews([GEMINI_API_KEY |-> key], response)
    /\ UNCHANGED <<srvBuzzsumo, srvResponse>>
    /\ UNCHANGED <<appVars, fnVars>>

\* the promise of the server's fetchPhilippineTelcoNews settles
SrvBuzzsumoSettles ==
    /\ op = "server"
    /\ srvBuzzsumo = Pending
    /\ \E key \in BOOLEAN, response \in BuzzsumoResponses :
          srvBuzzsumo' = srvFetchPhilippineTelcoNews([BUZZSUMO_API_KEY |-> key], response)
    /\ UNCHANGED <<srvGemini, srvResponse>>
    /\ UNCHANGED <<appVars, fnVars>>

\* the handler resumes after await Promise.allSettled([...]), repairs the links
\* and sends its response
SrvResponds ==
    /\ op = "server"
    /\ srvResponse = null
    /\ allSettled(srvGemini, srvBuzzsumo)
    /\ \E net \in NetInputs :
          srvResponse' = Some(srvRespond(srvGemini, srvBuzzsumo, net))
    /\ UNCHANGED <<srvGemini, srvBuzzsumo>>
    /\ UNCHANGED <<appVars, fnVars>>

SrvNext == SrvRequest \/ SrvGeminiSettles \/ SrvBuzzsumoSettles \/ SrvResponds

\* one program runs: the browser App or the server
Init ==
    /\ AppIdle /\ SrvIdle
    /\ op \in {"App", "server"} /\ args = <<>> /\ result = null

Next == AppNext \/ SrvNext

Spec == Init /\ [][Next]_vars

\* The scheduling the code gives: a handler that awaits settled promises
\* resumes (the event loop runs its continuation).  A source promise settles
\* when the remote side answers or the connection fails; neither fetch
\* (part_001:75-77, part_000:430-485) nor generateContent
\* (geminiService.ts:217-324, part_000:595-648) is given a timer or an abort
\* signal, so nothing local makes GeminiSettles, BuzzsumoSettles,
\* SrvGeminiSettles or SrvBuzzsumoSettles happen.
\*
\* Weak fairness of SrvResponds is stated through its enabling condition:
\* SrvResponds is enabled exactly in the states of SrvCanRespond and every
\* SrvResponds step leaves them, so WF_vars(SrvResponds) is []<>~SrvCanRespond.
SrvCanRespond ==
    op = "server" /\ srvResponse = null /\ allSettled(srvGemini, srvBuzzsumo)

FairSpec ==
    /\ Init /\ [][Next]_vars
    /\ WF_vars(FetchNewsResumes)
    /\ []<>(~SrvCanRespond)

(***************************************************************************)
(* Claims about the fetch request (Spec)                                   *)
(***************************************************************************)
\* the BuzzSumo call of the request failed: no key, a network error, a
\* non-2xx status, or a malformed payload
BuzzsumoFailed ==
    /\ buzzsumoCall # null
    /\ \/ ~buzzsumoCall[1].env.BUZZSUMO_API_KEY
       \/ buzzsumoCall[1].response.kind # "json"
       \/ \E i \in DOMAIN buzzsumoCall[1].response.results :
              rawItemThrows(buzzsumoCall[1].response.results[i])

\* C1: when the Gemini fetch of a request has failed and the request is over,
\* the App shows that failure's message and holds no article of either source,
\* and the server has answered 500 with that message and without articles.
C1_PrimaryFailureFailsRequest ==
    /\ (geminiResult.status = "rejected" /\ ~loading)
          => /\ error = Some(geminiResult.reason.message)
             /\ newsData = null
             /\ buzzsumoArticles = <<>>
    /\ (srvGemini.status = "rejected" /\ srvResponse # null)
          => /\ srvResponse[1].status = 500
             /\ srvResponse[1].body.details = srvGemini.reason.message
             /\ DOMAIN srvResponse[1].body = {"error", "details"}

\* a failed request whose BuzzSumo fetch gave articles
C1_Witness ==
    /\ ~loading /\ geminiResult.status = "rejected"
    /\ buzzsumoResult.status = "fulfilled" /\ buzzsumoResult.value # <<>>
    /\ error # null

C1_WitnessServer ==
    /\ srvGemini.status = "rejected" /\ srvResponse # null
    /\ srvBuzzsumo.status = "fulfilled" /\ srvBuzzsumo.value # <<>>

\* C2: a failed BuzzSumo call settles fetchPhilippineTelcoNews as fulfilled with
\* the empty list, and the request that then ends with a fulfilled Gemini fetch
\* ends with the Gemini data, no BuzzSumo article and no error.
C2_FailedCallYieldsEmpty ==
    (BuzzsumoFailed /\ buzzsumoResult # Pending)
        => buzzsumoResult = [status |-> "fulfilled", value |-> <<>>]

C2_RequestCompletes ==
    (loading /\ ~loading' /\ BuzzsumoFailed /\ geminiResult.status = "fulfilled")
        => /\ newsData' = Some(geminiResult.value.data)
           /\ buzzsumoArticles' = <<>>
           /\ error' = null

C2_SecondaryFailureTolerated ==
    [](C2_FailedCallYieldsEmpty) /\ [][C2_RequestCompletes]_vars

C2_Witness ==
    /\ BuzzsumoFailed /\ ~loading /\ hasNews /\ error = null
    /\ buzzsumoCall[1].response.kind = "status"

\* C3: both fetches start together, and while one of them is pending nothing of
\* the request is handled: the App is loading, has no data and no error, and
\* the server has sent no response.  A fetch that has settled leaves the other
\* pending until it settles itself.
C3_AllSettledJoin ==
    /\ (geminiResult = NoPromise) <=> (buzzsumoResult = NoPromise)
    /\ (geminiResult = Pending \/ buzzsumoResult = Pending)
          => /\ loading
             /\ newsData = null /\ buzzsumoArticles = <<>> /\ error = null
    /\ (srvGemini = NoPromise) <=> (srvBuzzsumo = NoPromise)
    /\ (srvGemini = Pending \/ srvBuzzsumo = Pending) => srvResponse = null

\* the Gemini fetch has failed while the BuzzSumo fetch is still pending
C3_Witness ==
    /\ geminiResult.status = "rejected" /\ buzzsumoResult = Pending /\ loading

C3_WitnessServer ==
    /\ srvGemini.status = "rejected" /\ srvBuzzsumo = Pending
(***************************************************************************)
(* Title similarity in the cross-source merge (SpecMerge)                  *)
(***************************************************************************)
\* the token overlap of two titles is more than 80%
MatchOver80(title1, title2) ==
    fracGreater(calculateTitleSimilarity(title1, title2), <<4, 5>>)

\* C19: a secondary article whose title matches the title of a primary
\* article by more than 80% of their tokens is not appended by the merge,
\* even when the URLs of the two differ.
C19_SimilarTitlesMerged ==
    op = "mergeNewsWithBuzzSumo" =>
        \A i \in DOMAIN args[2] :
            (\E e \in AllPrimary(args[1]) : MatchOver80(e.title, args[2][i].title))
                => \A k \in (Len(args[1].generalNews) + 1)..Len(result.generalNews) :
                      result.generalNews[k] # convertBuzzSumoToNewsArticle(args[2][i])

(***************************************************************************)
(* Termination of a request (FairSpec)                                     *)
(***************************************************************************)
\* C20: every source call of a request ends, as a result or as a failure of
\* that call, and the request reaches a terminal state: in the browser
\* loading goes back to FALSE, in the server a response is sent.
C20_RequestTerminates ==
    /\ (geminiResult = Pending) ~> Settled(geminiResult)
    /\ (buzzsumoResult = Pending) ~> Settled(buzzsumoResult)
    /\ loading ~> ~loading
    /\ (srvGemini = Pending) ~> Settled(srvGemini)
    /\ (srvBuzzsumo = Pending) ~> Settled(srvBuzzsumo)
    /\ (srvGemini = Pending \/ srvBuzzsumo = Pending) ~> (srvResponse # null)

(***************************************************************************)
(* The source fetches applied to bounded inputs (SpecFetch)                *)
(***************************************************************************)
FetchInit == AppIdle /\ SrvIdle /\ FnIdle

\* parsed payloads whose companyNews array is well formed section by section
\* but does not hold the four companies once each: no section, one missing,
\* one repeated, one of another company
SectionLists ==
    { <<>>,
      << "PLDT", "Globe Telecom", "Converge ICT" >>,
      << "PLDT", "Globe Telecom", "Globe Telecom", "DITO Telecommunity" >>,
      << "PLDT", "Globe Telecom", "Converge ICT", "Sky Cable" >> }

sectionsPayload(names) ==
    [kind |-> "json", chunks |-> <<>>,
     parsed |-> parsedOf([ internationalNews |-> <<>>,
                           generalNews |-> <<newsArticle("PLDT 5G go", "https://other.example/a")>>,
                           companyNews |-> [k \in DOMAIN names |->
                                               [companyName |-> names[k], articles |-> <<>>]] ],
                         {}, {}, {})]

PrimaryResponses == GeminiResponses \cup { sectionsPayload(names) : names \in SectionLists }

\* fetchBuzzSumoNews({...})
FetchBuzzSumoNewsCall ==
    /\ op = "idle"
    /\ \E key \in BOOLEAN, response \in BuzzsumoResponses :
          LET env == [BUZZSUMO_API_KEY |-> key]
          IN  /\ op' = "fetchBuzzSumoNews"
              /\ args' = [env |-> env, response |-> response]
              /\ result' = [outcome  |-> fetchBuzzSumoNews(env, response),
                            requests |-> fetchBuzzSumoNewsRequests(env)]
    /\ UNCHANGED <<appVars, srvVars>>

\* fetchPhilippineTelcoNews(startDate, endDate)
FetchPhilippineTelcoNewsCall ==
    /\ op = "idle"
    /\ \E key \in BOOLEAN, response \in BuzzsumoResponses :
          LET env == [BUZZSUMO_API_KEY |-> key]
          IN  /\ op' = "fetchPhilippineTelcoNews"
              /\ args' = [env |-> env, response |-> response]
              /\ result' = [outcome  |-> fetchPhilippineTelcoNews(env, response),
                            requests |-> fetchBuzzSumoNewsRequests(env)]
    /\ UNCHANGED <<appVars, srvVars>>

\* fetchTelcoNews(startDate, endDate)
FetchTelcoNewsCall ==
    /\ op = "idle"
    /\ \E key \in BOOLEAN, response \in PrimaryResponses :
          LET env == [API_KEY |-> key]
          IN  /\ op' = "fetchTelcoNews"
              /\ args' = [env |-> env, response |-> response]
              /\ result' = [outcome  |-> fetchTelcoNews(env, response),
                            requests |-> fetchTelcoNewsRequests(env)]
    /\ UNCHANGED <<appVars, srvVars>>

\* the server's fetchGeminiNews(startDate, endDate)
FetchGeminiNewsCall ==
    /\ op = "idle"
    /\ \E key \in BOOLEAN, response \in PrimaryResponses :
          LET env == [GEMINI_API_KEY |-> key]
          IN  /\ op' = "fetchGeminiNews"
              /\ args' = [env |-> env, response |-> response]
              /\ result' = [outcome  |-> fetchGeminiNews(env, response),
                            requests |-> fetchGeminiNewsRequests(env)]
    /\ UNCHANGED <<appVars, srvVars>>

FetchNext ==
    \/ FetchBuzzSumoNewsCall \/ FetchPhilippineTelcoNewsCall
    \/ FetchTelcoNewsCall \/ FetchGeminiNewsCall

SpecFetch == FetchInit /\ [][FetchNext]_vars

\* C21: a source fetch whose key is missing issues no request and fails at
\* once with the missing-key error, whatever the remote side would have
\* answered: fetchBuzzSumoNews throws it (fetchPhilippineTelcoNews then gives
\* the empty list of a failed secondary call), fetchTelcoNews and
\* fetchGeminiNews reject with it.
C21_MissingKeyFailsAtOnce ==
    /\ (op = "fetchBuzzSumoNews" /\ ~args.env.BUZZSUMO_API_KEY) =>
          /\ result.requests = 0
          /\ result.outcome =
                [ok |-> FALSE,
                 message |-> "BUZZSUMO_API_KEY environment variable not set. Please set it in your environment."]
    /\ (op = "fetchPhilippineTelcoNews" /\ ~args.env.BUZZSUMO_API_KEY) =>
          /\ result.requests = 0
          /\ result.outcome = [status |-> "fulfilled", value |-> <<>>]
    /\ (op = "fetchTelcoNews" /\ ~args.env.API_KEY) =>
          /\ result.requests = 0
          /\ result.outcome =
                rejected("API_KEY environment variable not set. Please set it in your environment.")
    /\ (op = "fetchGeminiNews" /\ ~args.env.GEMINI_API_KEY) =>
          /\ result.requests = 0
          /\ result.outcome = rejected("GEMINI_API_KEY environment variable not set")

\* the key is missing while the remote side would have answered with a server
\* error: the call fails with the missing-key error, not with the status
C21_Witness ==
    /\ op = "fetchBuzzSumoNews"
    /\ ~args.env.BUZZSUMO_API_KEY
    /\ args.response.kind = "status"
    /\ result.requests = 0
    /\ ~result.outcome.ok

\* the company sections hold each tracked company exactly once
OneSectionEach(companyNews) ==
    /\ Len(companyNews) = Len(CompanyNames)
    /\ \A c \in DOMAIN CompanyNames :
          Cardinality({ k \in DOMAIN companyNews :
                          companyNews[k].companyName = CompanyNames[c] }) = 1

\* C23: a primary fetch that succeeds delivers exactly one company section
\* for each of PLDT, Globe Telecom, Converge ICT and DITO Telecommunity, and
\* a response that lacks one of the three top-level arrays is not delivered.
C23_OneSectionPerCompany ==
    /\ (op = "fetchTelcoNews" /\ result.outcome.status = "fulfilled") =>
          OneSectionEach(result.outcome.value.data.companyNews)
    /\ (op = "fetchGeminiNews" /\ result.outcome.status = "fulfilled") =>
          OneSectionEach(result.outcome.value.parsedData.companyNews)
    /\ (/\ op \in {"fetchTelcoNews", "fetchGeminiNews"}
        /\ args.response.kind = "json"
        /\ args.response.parsed.notArrays # {}) =>
          result.outcome.status = "rejected"

(***************************************************************************)
(* Link repair applied to bounded inputs (SpecRepair)                      *)
(***************************************************************************)
RepairInit == AppIdle /\ SrvIdle /\ FnIdle

\* the lists fetchPhilippineTelcoNews hands to the repair
RepairBuzzLists ==
    { srvFetchPhilippineTelcoNews([BUZZSUMO_API_KEY |-> TRUE], r).value :
        r \in BuzzsumoResponses }

\* the networks of NetInputs, and one where only the BuzzSumo copy of an
\* article is alive
RepairNets ==
    NetInputs \cup { [resolved |-> [u \in {} |-> 0], live |-> {"https://mb.com.ph/globe-fiber"}] }

\* fixAndValidateArticleUrls(parsedData, groundingChunks, buzzsumoArticles)
FixUrlsCall ==
    /\ op = "idle"
    /\ \E d \in NewsDataInputs, c \in GroundingChunkInputs,
          b \in RepairBuzzLists, net \in RepairNets :
          /\ op' = "fixAndValidateArticleUrls"
          /\ args' = [parsedData |-> d, groundingChunks |-> c, articles |-> b, net |-> net]
          /\ result' = fixAndValidateArticleUrls(d, c, b, net)
    /\ UNCHANGED <<appVars, srvVars>>

RepairNext == FixUrlsCall

SpecRepair == RepairInit /\ [][RepairNext]_vars

Flagged(article) == "urlBroken" \in DOMAIN article

\* a bucket after the repair: as long as before, each article in its place,
\* flagged with its original uri or not flagged with a uri that passed
\* validateUrl
BucketRepaired(before, after, net) ==
    /\ Len(after) = Len(before)
    /\ \A i \in DOMAIN before :
          /\ after[i].title = before[i].title
          /\ after[i].summary = before[i].summary
          /\ after[i].takeaways = before[i].takeaways
          /\ IF Flagged(after[i])
             THEN after[i].urlBroken /\ after[i].source.uri = before[i].source.uri
             ELSE after[i].source.uri \in net.live

\* C22: fixAndValidateArticleUrls drops no article: every bucket and company
\* section keeps its articles in their places, and each article ends either
\* flagged _urlBroken with its original uri, or not flagged with a uri that
\* passed the liveness check.
C22_RepairKeepsArticles ==
    op = "fixAndValidateArticleUrls" =>
        /\ BucketRepaired(args.parsedData.internationalNews, result.internationalNews, args.net)
        /\ BucketRepaired(args.parsedData.generalNews, result.generalNews, args.net)
        /\ DOMAIN result.companyNews = DOMAIN args.parsedData.companyNews
        /\ \A k \in DOMAIN result.companyNews :
              /\ result.companyNews[k].companyName = args.parsedData.companyNews[k].companyName
              /\ BucketRepaired(args.parsedData.companyNews[k].articles,
                                result.companyNews[k].articles, args.net)

\* one article is flagged because its uri is dead and nothing replaces it,
\* another gets the live url of its BuzzSumo copy as the last resort
C22_Witness ==
    /\ op = "fixAndValidateArticleUrls"
    /\ Len(result.generalNews) = 1 /\ Flagged(result.generalNews[1])
    /\ Len(result.companyNews[2].articles) = 1
    /\ ~Flagged(result.companyNews[2].articles[1])
    /\ result.companyNews[2].articles[1].source.uri
          # args.parsedData.companyNews[2].articles[1].source.uri

(***************************************************************************)
(* State of the App across requests (Spec)                                 *)
(***************************************************************************)
\* while a fetch is in progress nothing of an earlier request is left
ClearedWhileLoading ==
    loading => /\ newsData = null /\ buzzsumoArticles = <<>>
               /\ presentation = null /\ error = null

\* what a finished request holds is what its own two fetches gave
HoldsOwnResult ==
    (op = "App" /\ hasFetched /\ ~loading) =>
        /\ newsData = IF geminiResult.status = "fulfilled"
                      THEN Some(geminiResult.value.data) ELSE null
        /\ buzzsumoArticles = IF /\ geminiResult.status = "fulfilled"
                                 /\ buzzsumoResult.status = "fulfilled"
                              THEN buzzsumoResult.value ELSE <<>>

\* the error a request ends with is the failure of its own primary fetch
EndsWithOwnError ==
    (loading /\ ~loading') =>
        error' = IF geminiResult.status = "rejected"
                 THEN Some(geminiResult.reason.message) ELSE null

\* C24: a fetch request clears newsData, the BuzzSumo list, the presentation
\* and the error before its fetches are issued, so they are null / empty in
\* every state where loading is true, and what the finished request holds
\* (newsData, BuzzSumo list, error) is given by its own two responses alone.
C24_ResultLivesUntilNextFetch ==
    [](ClearedWhileLoading /\ HoldsOwnResult) /\ [][EndsWithOwnError]_vars

\* a finished request holds news, BuzzSumo articles, a presentation and an
\* error, and the Fetch button is enabled: the next fetch has all four to clear
C24_Witness ==
    /\ op = "App" /\ hasFetched /\ ~loading /\ ~generatingPresentation
    /\ newsData # null /\ buzzsumoArticles # <<>>
    /\ presentation # null /\ error # null
    /\ ENABLED HandleFetchNews

\* a fetch starts only when no presentation is being generated, a generation
\* only when no fetch is loading, and a settled fetch promise is replaced by
\* a pending one only when neither is running
StartsOnlyWhenIdle ==
    /\ (~loading /\ loading') => ~generatingPresentation
    /\ (~generatingPresentation /\ generatingPresentation') => ~loading
    /\ (Settled(geminiResult) /\ geminiResult' = Pending)
          => ~loading /\ ~generatingPresentation
    /\ (Settled(buzzsumoResult) /\ buzzsumoResult' = Pending)
          => ~loading /\ ~generatingPresentation

\* C27: at most one of fetch and presentation generation is in flight in the
\* App: neither starts while the other or itself is running, so the fetch
\* promises a request waits for are always its own.
C27_OneOperationInFlight ==
    [](~(loading /\ generatingPresentation)) /\ [][StartsOnlyWhenIdle]_vars

\* a presentation is being generated from fetched news: neither button acts
C27_Witness ==
    /\ op = "App" /\ generatingPresentation /\ ~loading /\ hasNews
    /\ ~ENABLED HandleFetchNews
    /\ ~ENABLED HandleGeneratePresentation

\* a generation in progress works on the merge of the primary result of the
\* last fetch with the stored BuzzSumo list, and the stored newsData is still
\* that primary result
MergesFetchedInputs ==
    (op = "App" /\ generatingPresentation) =>
        /\ geminiResult.status = "fulfilled"
        /\ newsData = Some(geminiResult.value.data)
        /\ mergedData = Some(mergeNewsWithBuzzSumo(geminiResult.value.data,
                                                   buzzsumoArticles))
        /\ mergedData[1].internationalNews = newsData[1].internationalNews
        /\ mergedData[1].companyNews = newsData[1].companyNews
        /\ Len(mergedData[1].generalNews)
              <= Len(newsData[1].generalNews) + Len(buzzsumoArticles)

\* the start and the end of a generation leave newsData and the list alone
GenerationKeepsInputs ==
    (generatingPresentation' # generatingPresentation) =>
        UNCHANGED <<newsData, buzzsumoArticles>>

\* C28: generating a presentation, successfully or not and any number of times
\* after one fetch, leaves newsData and the BuzzSumo list unchanged; newsData
\* stays the unmerged primary result, every generation merges the same inputs
\* and the general bucket of the merge never grows across generations.
C28_GenerationLeavesNewsData ==
    []MergesFetchedInputs /\ [][GenerationKeepsInputs]_vars

\* a further generation runs after a successful one, a BuzzSumo article has
\* been merged into the general bucket, and newsData is without it
C28_Witness ==
    /\ op = "App" /\ generatingPresentation /\ presentation # null
    /\ buzzsumoArticles # <<>>
    /\ Len(mergedData[1].generalNews) > Len(newsData[1].generalNews)
    /\ newsData = Some(geminiResult.value.data)

(***************************************************************************)
(* resolveUrl hop by hop (SpecResolve)                                     *)
(***************************************************************************)
\* resolveUrl(url, maxRedirects = 5)
maxRedirects == 5

ResolveUrls == {GroundingUri, ResolvedUrl, "https://lenient.example/ntc"}

\* values of a Location header: absolute, relative, and one that new URL rejects
Locations == ResolveUrls \cup {"/moved", "http://"}

HeadStatuses == {200, 204, 301, 302, 403, 404}

\* what the first statement of the loop body can end with: a response with
\* its status and Location header, the abort after 10 seconds, a network error
HeadOutcomes ==
    { [kind |-> "response", status |-> st, location |-> loc] :
        st \in HeadStatuses, loc \in {null} \cup {Some(l) : l \in Locations} }
    \cup { [kind |-> "error", name |-> "AbortError",
            message |-> "This operation was aborted"],
           [kind |-> "error", name |-> "TypeError", message |-> "fetch failed"] }

\* what the GET of the fallback can end with once it settles
GetOutcomes ==
    { [kind |-> "response", ok |-> TRUE, url |-> u] : u \in ResolveUrls }
    \cup { [kind |-> "response", ok |-> FALSE, url |-> GroundingUri],
           [kind |-> "error", name |-> "TypeError", message |-> "fetch failed"] }

\* the origin of an https URL
urlOrigin(u) ==
    LET ends == {k \in 9..Len(u) : Char(u, k) = "/"}
        stop == IF ends = {} THEN Len(u) + 1
                ELSE CHOOSE k \in ends : \A j \in ends : k <= j
    IN  SubSeq(u, 1, stop - 1)

\* new URL(location, currentUrl).href, null when the constructor throws
hrefOf(location, currentUrl) ==
    IF location = "http://" THEN null
    ELSE IF startsWith(location, "/") THEN Some(urlOrigin(currentUrl) \o location)
    ELSE Some(location)

\* the objects resolveUrl returns
resolved(u, valid, status, reason) ==
    [url |-> u, valid |-> valid, status |-> status, reason |-> reason]

\* the locals of a running resolveUrl
frame(url, currentUrl, redirectCount, awaiting, response, fetchError, getResponse) ==
    [url |-> url, currentUrl |-> currentUrl, redirectCount |-> redirectCount,
     awaiting |-> awaiting, response |-> response, fetchError |-> fetchError,
     getResponse |-> getResponse]

ResolveInit == AppIdle /\ SrvIdle /\ FnIdle

\* resolveUrl is called: the first pass of the loop awaits its HEAD request
ResolveUrlCall ==
    /\ op = "idle"
    /\ \E url \in ResolveUrls :
          /\ op' = "resolveUrl"
          /\ args' = frame(url, url, 0, "HEAD", null, null, null)
          /\ result' = null
    /\ UNCHANGED <<appVars, srvVars>>

\* the inner catch: the GET fallback on the first hop unless the HEAD was
\* aborted, otherwise the rethrow that the outer catch turns into a result
innerCatch(f, fetchError) ==
    IF fetchError.name # "AbortError" /\ f.redirectCount = 0
    THEN [args   |-> [f EXCEPT !.awaiting = "GET", !.fetchError = Some(fetchError)],
          result |-> null]
    ELSE [args   |-> [f EXCEPT !.awaiting = "none", !.fetchError = Some(fetchError)],
          result |-> Some(resolved(f.url, FALSE, null, Some(fetchError.message)))]

\* the try block of one pass of the loop after the HEAD settled with a response
afterHeadResponse(f, response) ==
    LET g == [f EXCEPT !.response = Some(response)]
        done(r) == [args |-> [g EXCEPT !.awaiting = "none"], result |-> Some(r)]
    IN  IF response.status >= 300 /\ response.status < 400 /\ response.location # null
        THEN LET href == hrefOf(response.location[1], f.currentUrl)
             IN  IF href = null
                 THEN innerCatch(g, [kind |-> "error", name |-> "TypeError",
                                     message |-> "Invalid URL"])
                 ELSE IF f.redirectCount + 1 < maxRedirects
                 THEN [args   |-> [g EXCEPT !.currentUrl = href[1],
                                            !.redirectCount = @ + 1],
                       result |-> null]
                 ELSE [args   |-> [g EXCEPT !.currentUrl = href[1],
                                            !.redirectCount = @ + 1,
                                            !.awaiting = "none"],
                       result |-> Some(resolved(href[1], FALSE, null,
                                                Some("Too many redirects")))]
        ELSE IF response.status >= 200 /\ response.status <= 299
        THEN done(resolved(f.currentUrl, TRUE, null, null))
        ELSE IF response.status = 403 /\ f.redirectCount > 0
        THEN done(resolved(f.currentUrl, TRUE, Some(response.status), null))
        ELSE done(resolved(f.currentUrl, FALSE, Some(response.status), null))

\* the awaited HEAD request settles, by its answer or by the abort timer
HeadSettles ==
    /\ op = "resolveUrl" /\ result = null /\ args.awaiting = "HEAD"
    /\ \E outcome \in HeadOutcomes :
          LET next == IF outcome.kind = "response"
                      THEN afterHeadResponse(args, outcome)
                      ELSE innerCatch(args, outcome)
          IN  args' = next.args /\ result' = next.result
    /\ UNCHANGED <<op, appVars, srvVars>>

\* the awaited GET of the fallback settles
GetSettles ==
    /\ op = "resolveUrl" /\ result = null /\ args.awaiting = "GET"
    /\ \E outcome \in GetOutcomes :
          /\ args' = [args EXCEPT !.awaiting = "none", !.getResponse = Some(outcome)]
          /\ result' = IF outcome.kind = "response" /\ outcome.ok
                       THEN Some(resolved(outcome.url, TRUE, null, null))
                       ELSE Some(resolved(args.url, FALSE, null,
                                          Some(args.fetchError[1].message)))
    /\ UNCHANGED <<op, appVars, srvVars>>

ResolveNext == ResolveUrlCall \/ HeadSettles \/ GetSettles

\* the HEAD request settles because of its abort timer; the GET has none
SpecResolve == ResolveInit /\ [][ResolveNext]_vars /\ WF_vars(HeadSettles)

\* the result of a finished call is right: the redirect count never passes
\* maxRedirects, a call that followed maxRedirects redirects ends invalid with
\* reason 'Too many redirects', and a valid result is a 2xx answer to the HEAD,
\* a 403 after a followed redirect, or a 2xx answer to the GET tried after a
\* failure other than the abort on the first hop
ResolveUrlResultRight ==
    (op = "resolveUrl") =>
        /\ args.redirectCount <= maxRedirects
        /\ (result = null) = (args.awaiting # "none")
        /\ (result # null /\ args.redirectCount = maxRedirects) =>
              result[1] = resolved(args.currentUrl, FALSE, null,
                                   Some("Too many redirects"))
        /\ (result # null /\ result[1].valid) =>
              \/ /\ args.getResponse = null
                 /\ args.response # null
                 /\ args.response[1].status \in 200..299
              \/ /\ args.getResponse = null
                 /\ args.response # null
                 /\ args.response[1].status = 403
                 /\ args.redirectCount > 0
              \/ /\ args.getResponse # null
                 /\ args.getResponse[1].kind = "response" /\ args.getResponse[1].ok
                 /\ args.redirectCount = 0
                 /\ args.fetchError[1].name # "AbortError"

\* C29: resolveUrl always ends with a result object: every started call
\* returns, after at most maxRedirects followed redirects, with 'Too many
\* redirects' for a longer chain and valid = true only for a 2xx HEAD answer,
\* a 403 after a followed redirect or a 2xx answer to the first-hop GET
\* fallback.
C29_ResolveUrlEnds ==
    []ResolveUrlResultRight /\ ((op = "resolveUrl") ~> (result # null))

(***************************************************************************)
(* PresentationViewer: the slide index (SpecViewer)                        *)
(***************************************************************************)
\* the longest presentation shown
MaxSlides == 8

\* Math.min and Math.max of two numbers
mathMin(a, b) == IF a < b THEN a ELSE b
mathMax(a, b) == IF a > b THEN a ELSE b

\* variant: the last index is taken to be slides.length
goToNextSlide_PastTheEnd(prev, slidesLength) == mathMin(prev + 1, slidesLength)

\* the updater of goToNextSlide
goToNextSlide(prev, slidesLength) == mathMin(prev + 1, slidesLength - 1)

\* the updater of goToPrevSlide
goToPrevSlide(prev) == mathMax(prev - 1, 0)

\* the state of a mounted viewer: slides.length, currentSlideIndex, and the
\* last navigation with the index it was applied to
viewer(slidesLength, currentSlideIndex, action, prev) ==
    [slidesLength |-> slidesLength, currentSlideIndex |-> currentSlideIndex,
     action |-> action, prev |-> prev]

ViewerInit == AppIdle /\ SrvIdle /\ FnIdle

\* the viewer is mounted with a presentation: useState(0)
ViewerMount ==
    /\ op = "idle"
    /\ \E n \in 1..MaxSlides :
          /\ op' = "PresentationViewer"
          /\ args' = viewer(n, 0, "mount", 0)
    /\ UNCHANGED <<result, appVars, srvVars>>

\* the Next button, disabled on the last slide
ClickNext ==
    /\ op = "PresentationViewer"
    /\ args.currentSlideIndex # args.slidesLength - 1
    /\ args' = viewer(args.slidesLength,
                      goToNextSlide(args.currentSlideIndex, args.slidesLength),
                      "Next", args.currentSlideIndex)
    /\ UNCHANGED <<op, result, appVars, srvVars>>

\* the Prev button, disabled on the first slide
ClickPrev ==
    /\ op = "PresentationViewer"
    /\ args.currentSlideIndex # 0
    /\ args' = viewer(args.slidesLength, goToPrevSlide(args.currentSlideIndex),
                      "Prev", args.currentSlideIndex)
    /\ UNCHANGED <<op, result, appVars, srvVars>>

\* handleKeyDown
KeyDown ==
    /\ op = "PresentationViewer"
    /\ \E key \in {"ArrowRight", "ArrowLeft", "Escape", "Enter"} :
          IF key = "ArrowRight"
          THEN /\ args' = viewer(args.slidesLength,
                                 goToNextSlide(args.currentSlideIndex, args.slidesLength),
                                 key, args.currentSlideIndex)
               /\ UNCHANGED op
          ELSE IF key = "ArrowLeft"
          THEN /\ args' = viewer(args.slidesLength,
                                 goToPrevSlide(args.currentSlideIndex),
                                 key, args.currentSlideIndex)
               /\ UNCHANGED op
          ELSE IF key = "Escape"
          THEN op' = "idle" /\ args' = <<>>
          ELSE UNCHANGED <<op, args>>
    /\ UNCHANGED <<result, appVars, srvVars>>

ViewerNext == ViewerMount \/ ClickNext \/ ClickPrev \/ KeyDown

SpecViewer == ViewerInit /\ [][ViewerNext]_vars

\* C30: in the viewer of a presentation with at least one slide the slide
\* index stays within 0 .. slides.length - 1 after every next / previous
\* action by button or arrow key: next on the last slide and previous on the
\* first leave it unchanged, every other step moves it by exactly one.
C30_SlideIndexInRange ==
    (op = "PresentationViewer") =>
        /\ args.slidesLength >= 1
        /\ args.currentSlideIndex \in 0 .. args.slidesLength - 1
        /\ args.action \in {"Next", "ArrowRight"} =>
              args.currentSlideIndex =
                 IF args.prev = args.slidesLength - 1 THEN args.prev
                 ELSE args.prev + 1
        /\ args.action \in {"Prev", "ArrowLeft"} =>
              args.currentSlideIndex =
                 IF args.prev = 0 THEN args.prev ELSE args.prev - 1

\* ArrowRight was pressed on the last of several slides
C30_Witness ==
    /\ op = "PresentationViewer"
    /\ args.slidesLength > 1
    /\ args.action = "ArrowRight"
    /\ args.prev = args.slidesLength - 1
    /\ args.currentSlideIndex = args.slidesLength - 1

====
